---- MODULE Spec2Model ----
(***************************************************************************)
(* Model of the analysis core of the code visualizer:                      *)
(*   CodeScanner.scanWorkspace    (src/README.md, codeScanner listing)     *)
(*   DependencyGraph.buildGraph   (src/src/extension.ts)                   *)
(*   DependencyGraph.findMatchingNode, getNodeId,                          *)
(*   DependencyGraph.detectCircularDependencies                            *)
(*                                                                         *)
(* Paths and ids are strings in the source.  Here a string is a sequence   *)
(* of one-character strings, so that replace(/\\/g,'/'), path.basename,    *)
(* template-string keys, Array.prototype.sort and join('->') are computed  *)
(* character by character as the JavaScript does.  Path handling is that   *)
(* of a POSIX host (path.sep = "/"), where a backslash is an ordinary      *)
(* file-name character.                                                    *)
(***************************************************************************)
EXTENDS Integers, Sequences, FiniteSets, TLC

\* ------------------------------------------------------------------ bounds
\* Files collected per scan, references iterated per scan and per file.
MaxFiles == 3
MaxRefs == 4
MaxDepsPerFile == 2
\* References iterated per scan of the two-file tree used for edge weights.
MaxWeightRefs == 6
\* References extracted per scan of the tree with path aliases, and calls of
\* buildGraph on one DependencyGraph object.
MaxImports == 2
MaxBuilds == 2
\* Invocations of the command that may be in flight together.
MaxInvocations == 2
\* Statements in the text of a file.
MaxLines == 2
\* Webview panels created in all.
MaxPanels == 2

\* ------------------------------------------------------- input universes
\* Root-relative paths of regular files, as path.relative yields them.
pA == <<"a", ".", "c">>
pB == <<"b", ".", "c">>
pC == <<"c", ".", "c">>
pDirB == <<"d", "/", "b", ".", "c">>
pBackB == <<"d", "\\", "b", ".", "c">>
pJs == <<"a", ".", "j", "s">>
pArrowJs == <<"a", ".", "j", "s", "-", ">", "a", ".", "j", "s">>

\* The regular files that exist under the workspace root, one set per run:
\* three C files in the root; a C file in the root, one in directory d and
\* one whose name contains a backslash; two JavaScript files.
DiskScenarios == { {pA, pB, pC}, {pB, pDirB, pBackB}, {pJs, pArrowJs} }

\* Two C files in the root, scanned with the larger reference bound.
WeightDisk == {pA, pB}

NULL == <<"null">>

\* ------------------------------------------------------ string primitives
\* UTF-16 code unit of the characters used in the model.
Code(ch) ==
    CASE ch = "-" -> 45
      [] ch = "." -> 46
      [] ch = "/" -> 47
      [] ch = ">" -> 62
      [] ch = "\\" -> 92
      [] ch = "a" -> 97
      [] ch = "b" -> 98
      [] ch = "c" -> 99
      [] ch = "d" -> 100
      [] ch = "j" -> 106
      [] ch = "l" -> 108
      [] ch = "o" -> 111
      [] ch = "s" -> 115
      [] ch = "t" -> 116
      [] ch = "u" -> 117
      [] OTHER -> 110

\* s < t in the order of the default Array.prototype.sort comparator.
RECURSIVE StrLess(_, _)
StrLess(s, t) ==
    IF t = <<>> THEN FALSE
    ELSE IF s = <<>> THEN TRUE
    ELSE IF Code(Head(s)) # Code(Head(t)) THEN Code(Head(s)) < Code(Head(t))
    ELSE StrLess(Tail(s), Tail(t))

\* Insert x into the sorted sequence srt, after the elements equal to it.
RECURSIVE SortedInsert(_, _)
SortedInsert(srt, x) ==
    IF srt = <<>> THEN <<x>>
    ELSE IF StrLess(x, Head(srt)) THEN <<x>> \o srt
    ELSE <<Head(srt)>> \o SortedInsert(Tail(srt), x)

\* Array.prototype.sort() with the default comparator.
RECURSIVE Sort(_)
Sort(arr) ==
    IF arr = <<>> THEN <<>>
    ELSE SortedInsert(Sort(SubSeq(arr, 1, Len(arr) - 1)), arr[Len(arr)])

\* Array.prototype.join(sep) on a sequence of strings.
RECURSIVE Join(_, _)
Join(arr, sep) ==
    IF arr = <<>> THEN <<>>
    ELSE IF Len(arr) = 1 THEN arr[1]
    ELSE arr[1] \o sep \o Join(Tail(arr), sep)

\* Array.prototype.indexOf, 1-based; 0 stands for -1.
IndexOf(arr, x) ==
    IF \E i \in 1..Len(arr) : arr[i] = x
    THEN CHOOSE i \in 1..Len(arr) : arr[i] = x /\ \A j \in 1..(i - 1) : arr[j] # x
    ELSE 0

\* path.basename on a POSIX host: what follows the last "/".
basename(p) ==
    LET slashes == {i \in 1..Len(p) : p[i] = "/"}
        last == IF slashes = {} THEN 0
                ELSE CHOOSE i \in slashes : \A j \in slashes : j <= i
    IN SubSeq(p, last + 1, Len(p))

\* path.extname of a file name of the model: from its last "." on.
extname(p) ==
    LET b == basename(p)
        dots == {i \in 2..Len(b) : b[i] = "."}
        last == IF dots = {} THEN Len(b) + 1
                ELSE CHOOSE i \in dots : \A j \in dots : j <= i
    IN SubSeq(b, last, Len(b))

\* languageMap[ext] || 'unknown', for the extensions of the model.
getLanguageFromExtension(ext) ==
    CASE ext = <<".", "c">> -> "c"
      [] ext = <<".", "j", "s">> -> "javascript"
      [] ext = <<".", "t", "s">> -> "typescript"
      [] ext = <<".", "p", "y">> -> "python"
      [] ext = <<".", "g", "o">> -> "go"
      [] ext = <<".", "c", "s">> -> "csharp"
      [] ext = <<".", "j", "a", "v", "a">> -> "java"
      [] OTHER -> "unknown"

DependencyType ==
    {"import", "require", "dynamic-import", "include", "using", "from", "export"}

\* The DependencyType values extractDependencies pushes for a language, in
\* the order of its pattern loops: for JavaScript every 'import' match is
\* pushed before any 'require' match, and so on.
KindOrder(language) ==
    CASE language = "javascript" -> <<"import", "require", "dynamic-import", "export">>
      [] language = "typescript" -> <<"import", "require", "dynamic-import", "export">>
      [] language = "python" -> <<"import", "from">>
      [] language = "java" -> <<"import">>
      [] language = "csharp" -> <<"using">>
      [] language = "go" -> <<"import">>
      [] language = "c" -> <<"include">>
      [] OTHER -> <<>>

KindRank(language, type) ==
    CHOOSE i \in 1..Len(KindOrder(language)) : KindOrder(language)[i] = type

\* relativePath.replace(/\\/g, '/')
getNodeId(relativePath) ==
    [i \in 1..Len(relativePath) |->
        IF relativePath[i] = "\\" THEN "/" ELSE relativePath[i]]

\* String.prototype.split(sep) for a one-character separator.
RECURSIVE Split(_, _)
Split(str, sep) ==
    IF \E i \in 1..Len(str) : str[i] = sep
    THEN LET first == CHOOSE i \in 1..Len(str) :
                          str[i] = sep /\ \A j \in 1..(i - 1) : str[j] # sep
         IN <<SubSeq(str, 1, first - 1)>> \o Split(SubSeq(str, first + 1, Len(str)), sep)
    ELSE <<str>>

\* String.prototype.includes
Includes(str, sub) ==
    \E i \in 1..(Len(str) - Len(sub) + 1) : SubSeq(str, i, i + Len(sub) - 1) = sub

\* String.prototype.startsWith
StartsWith(str, prefix) ==
    Len(prefix) <= Len(str) /\ SubSeq(str, 1, Len(prefix)) = prefix

\* String.prototype.replace with a string pattern: the first occurrence.
Replace(str, pat, replacement) ==
    IF Includes(str, pat)
    THEN LET at == CHOOSE i \in 1..(Len(str) - Len(pat) + 1) :
                       /\ SubSeq(str, i, i + Len(pat) - 1) = pat
                       /\ \A j \in 1..(i - 1) : SubSeq(str, j, j + Len(pat) - 1) # pat
         IN SubSeq(str, 1, at - 1) \o replacement \o SubSeq(str, at + Len(pat), Len(str))
    ELSE str

\* ------------------------------------------------------- path (POSIX)
\* The segments of an absolute path with "", "." and ".." resolved.
RECURSIVE NormSegs(_, _)
NormSegs(segs, acc) ==
    IF segs = <<>> THEN acc
    ELSE IF Head(segs) = <<>> \/ Head(segs) = <<".">> THEN NormSegs(Tail(segs), acc)
    ELSE IF Head(segs) = <<".", ".">>
    THEN NormSegs(Tail(segs), SubSeq(acc, 1, Len(acc) - 1))
    ELSE NormSegs(Tail(segs), Append(acc, Head(segs)))

\* path.join(a, b) for an absolute a: joined with "/" and normalized; a
\* trailing "/" is kept.
pathJoin(a, b) ==
    LET joined == IF b = <<>> THEN a ELSE a \o <<"/">> \o b
        segs == NormSegs(Split(joined, "/"), <<>>)
    IN <<"/">> \o Join(segs, <<"/">>)
          \o (IF joined[Len(joined)] = "/" /\ segs # <<>> THEN <<"/">> ELSE <<>>)

\* path.resolve(from, to) for an absolute from.
pathResolve(from, to) ==
    LET joined == IF StartsWith(to, <<"/">>) THEN to ELSE from \o <<"/">> \o to
    IN <<"/">> \o Join(NormSegs(Split(joined, "/"), <<>>), <<"/">>)

\* path.relative(from, to) for absolute paths.
pathRelative(from, to) ==
    LET fs == NormSegs(Split(from, "/"), <<>>)
        ts == NormSegs(Split(to, "/"), <<>>)
        shared == {n \in 0..Len(fs) : n <= Len(ts) /\ SubSeq(fs, 1, n) = SubSeq(ts, 1, n)}
        common == CHOOSE n \in shared : \A m \in shared : m <= n
    IN Join([i \in 1..(Len(fs) - common) |-> <<".", ".">>]
                \o SubSeq(ts, common + 1, Len(ts)), <<"/">>)

\* path.dirname of an absolute path.
dirname(p) ==
    LET slashes == {i \in 1..Len(p) : p[i] = "/"}
        last == CHOOSE i \in slashes : \A j \in slashes : j <= i
    IN IF last = 1 THEN <<"/">> ELSE SubSeq(p, 1, last - 1)

\* workspaceFolders[0].uri.fsPath
workspacePath == <<"/", "w">>

\* path.join(currentPath, entry.name): the absolute path of a file of the tree.
FullPath(relativePath) == workspacePath \o <<"/">> \o relativePath

\* ------------------------------------------------------- tsconfig.json
\* Map.prototype.set on a map kept in insertion order.
MapSet(table, key, value) ==
    IF \E i \in 1..Len(table) : table[i].alias = key
    THEN [i \in 1..Len(table) |->
             IF table[i].alias = key THEN [alias |-> key, aliasPath |-> value]
             ELSE table[i]]
    ELSE Append(table, [alias |-> key, aliasPath |-> value])

\* The forEach over Object.entries(tsConfig.compilerOptions.paths), from
\* entry i on.  value[0].replace throws when value[0] is not a string: the
\* iteration ends there and keeps what was set before.
RECURSIVE LoadEntries(_, _, _)
LoadEntries(table, paths, i) ==
    IF i > Len(paths) THEN table
    ELSE IF paths[i].isArray /\ Len(paths[i].value) > 0
    THEN IF paths[i].value[1].isString
         THEN LoadEntries(MapSet(table,
                                 Replace(paths[i].key, <<"/", "*">>, <<>>),
                                 Replace(paths[i].value[1].str, <<"/", "*">>, <<>>)),
                          paths, i + 1)
         ELSE table
    ELSE LoadEntries(table, paths, i + 1)

\* loadTsConfigPaths: the table after the call.  A missing file changes
\* nothing; so does a file JSON.parse rejects, as the catch ignores it.
loadTsConfigPaths(table, config) ==
    IF config.state = "parsed" THEN LoadEntries(table, config.paths, 1)
    ELSE table

\* ------------------------------------------------------------------ state
VARIABLES
    pc,                    \* position of the command handler
    disk,                  \* regular files under the workspace root
    files,                 \* CodeFile[] accumulated by the scanner
    nodes,                 \* GraphNode[]
    edges,                 \* GraphEdge[]
    edgeMap,               \* Map<string, GraphEdge>: key -> index in edges
    fileIdx,               \* position of `for (const file of files)`
    deps,                  \* DependencyInfo[] iterated so far, per file; each
                           \* entry also remembers the file it resolved to
    circularDependencies,  \* string[][]
    closedCycles,          \* history: path slice of each back-edge met
    statistics,
    unreadable,            \* tree entries whose readFile rejects
    badDirs,               \* directories whose readdir rejects
    listing,               \* order in which readdir yields the entries
    stack,                 \* scanDirectory activations, innermost last
    notification,          \* the last message the handler showed
    currentPanel,          \* VisualizationPanel.currentPanel
    tsConfig,              \* tsconfig.json at the workspace root
    tsConfigPaths,         \* Map<string, string>, in insertion order
    builds,                \* buildGraph calls on the DependencyGraph object
    imports,               \* history: the references extracted so far
    firstRun,              \* history: inputs and result of the previous run
    inv,                   \* the handler invocations in flight
    content,               \* the statements of each file, in text order
    panels,                \* the webview panels: those alive, and how many
                           \* were created
    dependencies           \* what extractDependencies returned for a file

scanVars == <<unreadable, badDirs, listing, stack>>

hostVars == <<notification, currentPanel, inv>>

aliasVars == <<tsConfig, tsConfigPaths, builds, imports>>

restVars == <<content, panels, dependencies>>

vars == <<pc, disk, files, nodes, edges, edgeMap, fileIdx, deps,
          circularDependencies, closedCycles, statistics,
          scanVars, hostVars, aliasVars, firstRun, restVars>>

NoStatistics ==
    [totalNodes |-> 0, totalEdges |-> 0, languages |-> {}, circularCount |-> 0,
     maxDependencies |-> 0, maxDependents |-> 0]

NoGraphData ==
    [nodes |-> <<>>, edges |-> <<>>, circularDependencies |-> <<>>,
     statistics |-> NoStatistics]

\* VisualizationPanel.currentPanel is undefined.
NoPanel == [panel |-> 0, graphData |-> NoGraphData]

\* No webview panel was ever created.
NoPanels == [alive |-> {}, created |-> 0]

\* extractDependencies has not been called in this run.
NoDependencies == [file |-> 0, list |-> <<>>]

\* No run has been recorded.
NoRun ==
    [recorded |-> FALSE, files |-> <<>>, deps |-> <<>>, nodes |-> <<>>,
     edges |-> <<>>, circularDependencies |-> <<>>]

\* No tsconfig.json at the root.
NoConfig == [state |-> "absent"]

\* The state apart from the graph builder's: a tree whose reads all succeed,
\* no panel, no alias configuration, a single invocation, a first run.
InitRest ==
    /\ unreadable = {}
    /\ badDirs = {}
    /\ listing = "asc"
    /\ stack = <<>>
    /\ notification = "Scanning code..."
    /\ currentPanel = NoPanel
    /\ tsConfig = NoConfig
    /\ tsConfigPaths = <<>>
    /\ builds = 1
    /\ imports = <<>>
    /\ firstRun = NoRun
    /\ inv = <<>>
    /\ content = <<>>
    /\ panels = NoPanels
    /\ dependencies = NoDependencies

Init ==
    /\ pc = "scan"
    /\ disk \in DiskScenarios
    /\ files = <<>>
    /\ nodes = <<>>
    /\ edges = <<>>
    /\ edgeMap = {}
    /\ fileIdx = 0
    /\ deps = <<>>
    /\ circularDependencies = <<>>
    /\ closedCycles = <<>>
    /\ statistics = NoStatistics
    /\ InitRest

\* ------------------------------------------------------------- scanning
\* One files.push of scanDirectory: a readable regular file of the tree,
\* each visited once, in the order the directory listing yields them.
ScanFile(p) ==
    /\ pc = "scan"
    /\ Len(files) < MaxFiles
    /\ \A i \in 1..Len(files) : files[i].relativePath # p
    /\ files' = Append(files, [relativePath |-> p,
                                language |-> getLanguageFromExtension(extname(p))])
    /\ UNCHANGED <<pc, disk, nodes, edges, edgeMap, fileIdx, deps,
                   circularDependencies, closedCycles, statistics>>
    /\ UNCHANGED <<scanVars, hostVars, aliasVars, firstRun, restVars>>

\* ------------------------------------------------------------- buildGraph
\* await this.loadTsConfigPaths(workspacePath), then
\* files.forEach(file => nodes.push({...})).  size, lineCount and group are
\* presentation data computed from the content and the language tag; no
\* later step of buildGraph reads them and they are left out.  isCircular
\* is absent until it is set to true: FALSE stands for absent.
NewNode(file) ==
    [id |-> getNodeId(file.relativePath),
     label |-> basename(file.relativePath),
     path |-> file.relativePath,
     language |-> file.language,
     dependencyCount |-> 0,
     dependentCount |-> 0,
     isCircular |-> FALSE]

CreateNodes ==
    /\ pc = "scan"
    /\ nodes' = [i \in 1..Len(files) |-> NewNode(files[i])]
    /\ deps' = [i \in 1..Len(files) |-> <<>>]
    /\ fileIdx' = 1
    /\ pc' = "edges"
    /\ tsConfigPaths' = loadTsConfigPaths(tsConfigPaths, tsConfig)
    /\ UNCHANGED <<disk, files, edges, edgeMap, circularDependencies,
                   closedCycles, statistics>>
    /\ UNCHANGED <<scanVars, hostVars, tsConfig, builds, imports, firstRun, restVars>>

\* const edgeKey = `${sourceId}->${targetId}`
edgeKey(sourceId, targetId) == sourceId \o <<"-", ">">> \o targetId

\* nodes.find(n => n.path === depPath): the exact match left out.
FirstNodeWithPathMut(ns, depPath) == 0

\* nodes.find(n => n.path === depPath): index of the first such node, 0 when
\* there is none.
FirstNodeWithPath(ns, depPath) ==
    IF \E i \in 1..Len(ns) : ns[i].path = depPath
    THEN CHOOSE i \in 1..Len(ns) :
            ns[i].path = depPath /\ \A j \in 1..(i - 1) : ns[j].path # depPath
    ELSE 0

\* nodes.find(n => path.basename(n.path)): the comparison left out.
FirstNodeWithBasenameMut(ns, depBasename) ==
    IF ns # <<>> THEN 1 ELSE 0

\* nodes.find(n => path.basename(n.path) === depBasename)

FirstNodeWithBasename(ns, depBasename) ==
    IF \E i \in 1..Len(ns) : basename(ns[i].path) = depBasename
    THEN CHOOSE i \in 1..Len(ns) :
            /\ basename(ns[i].path) = depBasename
            /\ \A j \in 1..(i - 1) : basename(ns[j].path) # depBasename
    ELSE 0

FirstNodeWithId(ns, id) ==
    IF \E i \in 1..Len(ns) : ns[i].id = id
    THEN CHOOSE i \in 1..Len(ns) :
            ns[i].id = id /\ \A j \in 1..(i - 1) : ns[j].id # id
    ELSE 0

\* return match ? match.id : depPath -- the unmatched path handed back.
findMatchingNodeMut(depPath, ns) ==
    LET exactMatch == FirstNodeWithPath(ns, depPath)
        match == FirstNodeWithBasename(ns, basename(depPath))
    IN IF exactMatch # 0 THEN ns[exactMatch].id
       ELSE IF match # 0 THEN ns[match].id
       ELSE depPath

\* Exact match on the node's path first, then the first node with the same
\* base file name; NULL when neither exists.
findMatchingNode(depPath, ns) ==
    LET exactMatch == FirstNodeWithPath(ns, depPath)
        match == FirstNodeWithBasename(ns, basename(depPath))
    IN IF exactMatch # 0 THEN ns[exactMatch].id
       ELSE IF match # 0 THEN ns[match].id
       ELSE NULL

\* if (targetId): the self-reference test left out.
IsLinkMut(targetId, sourceId) == targetId # NULL

\* if (targetId && targetId !== sourceId)

IsLink(targetId, sourceId) == targetId # NULL /\ targetId # sourceId

\* edgeMap.get(edgeKey): index of the mapped edge, 0 when the key is absent.
EdgeMapGet(key) ==
    IF \E m \in edgeMap : m.key = key
    THEN (CHOOSE m \in edgeMap : m.key = key).idx
    ELSE 0

Min(x, y) == IF x < y THEN x ELSE y

\* The cap applied to the count as well as to the value.
BumpEdgeMut(e) == [e EXCEPT !.count = Min(e.count + 1, 5), !.value = Min(e.count + 1, 5)]

\* existingEdge.count = count + 1; existingEdge.value = Math.min(count, 5)
BumpEdge(e) == [e EXCEPT !.count = e.count + 1, !.value = Min(e.count + 1, 5)]

\* The new edge; its title (two base names and the type) is display text.
NewEdge(sourceId, targetId, depInfo) ==
    [from |-> sourceId, to |-> targetId, value |-> 1, count |-> 1,
     type |-> depInfo.type, isCircular |-> FALSE]

RefsDone ==
    LET RECURSIVE Sum(_)
        Sum(i) == IF i = 0 THEN 0 ELSE Len(deps[i]) + Sum(i - 1)
    IN Sum(Len(deps))

\* The reference bounds of the tree being scanned.
RefCap == IF disk = WeightDisk THEN MaxWeightRefs ELSE MaxRefs

FileRefCap == IF disk = WeightDisk THEN MaxWeightRefs ELSE MaxDepsPerFile

\* One iteration of `for (const depInfo of dependencies)` for the current
\* file.  The reference was resolved by extractDependencies to the regular
\* file q, and carries q's root-relative path with "\" replaced by "/".
\* The list is iterated in the order it was pushed, pattern loop by
\* pattern loop.
ProcessDep(q, type) ==
    /\ pc = "edges"
    /\ fileIdx <= Len(files)
    /\ RefsDone < RefCap
    /\ Len(deps[fileIdx]) < FileRefCap
    /\ \E i \in 1..Len(KindOrder(files[fileIdx].language)) :
          KindOrder(files[fileIdx].language)[i] = type
    /\ \A i \in 1..Len(deps[fileIdx]) :
          KindRank(files[fileIdx].language, deps[fileIdx][i].type)
              <= KindRank(files[fileIdx].language, type)
    /\ LET depInfo == [path |-> getNodeId(q), type |-> type, resolved |-> q]
           sourceId == getNodeId(files[fileIdx].relativePath)
           targetId == findMatchingNode(depInfo.path, nodes)
           key == edgeKey(sourceId, targetId)
           existingEdge == EdgeMapGet(key)
       IN /\ deps' = [deps EXCEPT ![fileIdx] = Append(@, depInfo)]
          /\ IF IsLink(targetId, sourceId)
             THEN IF existingEdge # 0
                  THEN /\ edges' = [edges EXCEPT ![existingEdge] = BumpEdge(@)]
                       /\ edgeMap' = edgeMap
                  ELSE /\ edges' = Append(edges, NewEdge(sourceId, targetId, depInfo))
                       /\ edgeMap' = edgeMap \cup {[key |-> key, idx |-> Len(edges) + 1]}
             ELSE UNCHANGED <<edges, edgeMap>>
    /\ UNCHANGED <<pc, disk, files, nodes, fileIdx, circularDependencies,
                   closedCycles, statistics>>
    /\ UNCHANGED <<scanVars, hostVars, aliasVars, firstRun, restVars>>

\* The dependencies of the current file are exhausted: next file.
NextFile ==
    /\ pc = "edges"
    /\ fileIdx <= Len(files)
    /\ fileIdx' = fileIdx + 1
    /\ UNCHANGED <<pc, disk, files, nodes, edges, edgeMap, deps,
                   circularDependencies, closedCycles, statistics>>
    /\ UNCHANGED <<scanVars, hostVars, aliasVars, firstRun, restVars>>

\* -------------------------------------------- detectCircularDependencies
\* adjList.get(nodeId) || []: the targets of nodeId's edges, in edge order.
Neighbors(es, nodeId) ==
    LET out == SelectSeq(es, LAMBDA e : e.from = nodeId)
    IN [i \in 1..Len(out) |-> out[i].to]

\* The search state: the cycle records, the visited set, the recursion
\* stack, and (history only) the path slice of every back-edge met, the
\* nodes expanded, in order, and the number of calls of dfs.
DfsStart ==
    [circular |-> <<>>, visited |-> {}, recStack |-> {}, closed |-> <<>>,
     expanded |-> <<>>, calls |-> 0]

\* The node is put on the recursion stack only, not in the visited set.
EnterMut(st, nodeId) ==
    [st EXCEPT !.recStack = @ \cup {nodeId},
               !.expanded = Append(@, nodeId)]

\* visited.add(nodeId); recStack.add(nodeId);
Enter(st, nodeId) ==
    [st EXCEPT !.visited = @ \cup {nodeId},
               !.recStack = @ \cup {nodeId},
               !.expanded = Append(@, nodeId)]

\* The visited test left out: a node is expanded again on every path.
SeenBeforeMut(st, nodeId) == FALSE

\* if (visited.has(nodeId)) return;

SeenBefore(st, nodeId) == nodeId \in st.visited

\* The back-edge branch with the whole path taken instead of its slice from
\* the node met again.
CloseCycleMut(st, nodeId, path) ==
    LET cycleStart == IndexOf(path, nodeId)
        cycle == Sort(path \o <<nodeId>>)
    IN IF cycleStart = 0 THEN st
       ELSE [st EXCEPT !.circular = Append(@, cycle),
                       !.closed = Append(@, path)]

\* The back-edge branch of dfs: slice, sort in place, key, dedup, push.
\* cycle.sort() sorts the array that is then pushed, so the stored record
\* is the sorted one.
CloseCycle(st, nodeId, path) ==
    LET cycleStart == IndexOf(path, nodeId)
        slice == SubSeq(path, cycleStart, Len(path))
        cycle == Sort(slice \o <<nodeId>>)
        cycleKey == Join(cycle, <<"-", ">">>)
    IN IF cycleStart = 0 THEN st
       ELSE IF \E i \in 1..Len(st.circular) :
                   Join(Sort(st.circular[i]), <<"-", ">">>) = cycleKey
            THEN [st EXCEPT !.closed = Append(@, slice)]
            ELSE [st EXCEPT !.circular = Append(@, cycle),
                            !.closed = Append(@, slice)]

RECURSIVE dfs(_, _, _, _)
RECURSIVE dfsEach(_, _, _, _, _)

dfs(es, nodeId, path, before) ==
    LET st == [before EXCEPT !.calls = @ + 1]
    IN IF nodeId \in st.recStack THEN CloseCycle(st, nodeId, path)
       ELSE IF SeenBefore(st, nodeId) THEN st
       ELSE LET entered == Enter(st, nodeId)
                explored == dfsEach(es, Neighbors(es, nodeId), 1,
                                    path \o <<nodeId>>, entered)
            IN [explored EXCEPT !.recStack = @ \ {nodeId}]

\* neighbors.forEach(neighbor => dfs(neighbor, [...path, nodeId]))
dfsEach(es, neighbors, i, path, st) ==
    IF i > Len(neighbors) THEN st
    ELSE dfsEach(es, neighbors, i + 1, path, dfs(es, neighbors[i], path, st))

\* nodes.forEach(node => { if (!visited.has(node.id)) dfs(node.id, []) })
RECURSIVE dfsRoots(_, _, _, _)
dfsRoots(ns, es, i, st) ==
    IF i > Len(ns) THEN st
    ELSE IF ns[i].id \in st.visited THEN dfsRoots(ns, es, i + 1, st)
    ELSE dfsRoots(ns, es, i + 1, dfs(es, ns[i].id, <<>>, st))

detectCircularDependencies(ns, es) == dfsRoots(ns, es, 1, DfsStart)

\* ------------------------------------------------- buildGraph, last part
\* edges.forEach(edge => { nodes.find(id === edge.from).dependencyCount++;
\*                         nodes.find(id === edge.to).dependentCount++ })
CountedNodes(ns, es) ==
    [k \in 1..Len(ns) |->
        [ns[k] EXCEPT
            !.dependencyCount =
                Cardinality({j \in 1..Len(es) : FirstNodeWithId(ns, es[j].from) = k}),
            !.dependentCount =
                Cardinality({j \in 1..Len(es) : FirstNodeWithId(ns, es[j].to) = k})]]

\* circle.forEach(nodeId => nodes.find(n => n.id === nodeId).isCircular = true)
MarkedNodes(ns, circles) ==
    [k \in 1..Len(ns) |->
        [ns[k] EXCEPT !.isCircular =
            \E c \in 1..Len(circles) : \E i \in 1..Len(circles[c]) :
                FirstNodeWithId(ns, circles[c][i]) = k]]

\* edges.find(e => e.from === from && e.to === to)
FirstEdge(es, from, to) ==
    IF \E j \in 1..Len(es) : es[j].from = from /\ es[j].to = to
    THEN CHOOSE j \in 1..Len(es) :
            /\ es[j].from = from /\ es[j].to = to
            /\ \A h \in 1..(j - 1) : ~(es[h].from = from /\ es[h].to = to)
    ELSE 0

\* for (i = 0; i < circle.length; i++)
\*     edges.find(circle[i] -> circle[(i + 1) % circle.length]).isCircular = true
MarkedEdges(es, circles) ==
    [j \in 1..Len(es) |->
        [es[j] EXCEPT !.isCircular =
            \E c \in 1..Len(circles) : \E i \in 1..Len(circles[c]) :
                FirstEdge(es, circles[c][i],
                          circles[c][(i % Len(circles[c])) + 1]) = j]]

\* Math.max(...values, 0)
MaxOf(S) == IF S = {} THEN 0 ELSE CHOOSE m \in S : \A x \in S : x <= m

Statistics(ns, es, circles) ==
    [totalNodes |-> Len(ns),
     totalEdges |-> Len(es),
     languages |-> {ns[k].language : k \in 1..Len(ns)},
     circularCount |-> Len(circles),
     maxDependencies |-> MaxOf({ns[k].dependencyCount : k \in 1..Len(ns)} \cup {0}),
     maxDependents |-> MaxOf({ns[k].dependentCount : k \in 1..Len(ns)} \cup {0})]

\* Every file has been processed: counts, cycle detection, marking and
\* statistics, then the result is returned.
Finish ==
    /\ pc = "edges"
    /\ fileIdx > Len(files)
    /\ LET counted == CountedNodes(nodes, edges)
           found == detectCircularDependencies(counted, edges)
       IN /\ nodes' = MarkedNodes(counted, found.circular)
          /\ edges' = MarkedEdges(edges, found.circular)
          /\ circularDependencies' = found.circular
          /\ closedCycles' = found.closed
          /\ statistics' = Statistics(counted, edges, found.circular)
    /\ pc' = "done"
    /\ UNCHANGED <<disk, files, edgeMap, fileIdx, deps>>
    /\ UNCHANGED <<scanVars, hostVars, aliasVars, firstRun, restVars>>

\* The command is invoked again: a new scanner, a new graph, new locals.
Rescan ==
    /\ pc = "done"
    /\ pc' = "scan"
    /\ files' = <<>>
    /\ nodes' = <<>>
    /\ edges' = <<>>
    /\ edgeMap' = {}
    /\ fileIdx' = 0
    /\ deps' = <<>>
    /\ circularDependencies' = <<>>
    /\ closedCycles' = <<>>
    /\ statistics' = NoStatistics
    /\ UNCHANGED disk
    /\ UNCHANGED <<scanVars, hostVars, aliasVars, firstRun, restVars>>

Next ==
    \/ \E p \in disk : ScanFile(p)
    \/ CreateNodes
    \/ \E q \in disk : \E type \in DependencyType : ProcessDep(q, type)
    \/ NextFile
    \/ Finish
    \/ Rescan

Spec == Init /\ [][Next]_vars

\* Scans of the two-file tree, with up to MaxWeightRefs references.
InitWeight ==
    /\ pc = "scan"
    /\ disk = WeightDisk
    /\ files = <<>>
    /\ nodes = <<>>
    /\ edges = <<>>
    /\ edgeMap = {}
    /\ fileIdx = 0
    /\ deps = <<>>
    /\ circularDependencies = <<>>
    /\ closedCycles = <<>>
    /\ statistics = NoStatistics
    /\ InitRest

SpecWeight == InitWeight /\ [][Next]_vars

\* ======================================================================
\* CodeScanner: the directory walk
\* ======================================================================
supportedExtensions ==
    { <<".", "t", "s">>,
      <<".", "t", "s", "x">>,
      <<".", "j", "s">>,
      <<".", "j", "s", "x">>,
      <<".", "p", "y">>,
      <<".", "j", "a", "v", "a">>,
      <<".", "c", "s">>,
      <<".", "c", "p", "p">>,
      <<".", "c">>,
      <<".", "h">>,
      <<".", "h", "p", "p">>,
      <<".", "g", "o">>,
      <<".", "r", "s">>,
      <<".", "r", "b">>,
      <<".", "p", "h", "p">>,
      <<".", "s", "w", "i", "f", "t">>,
      <<".", "k", "t">>,
      <<".", "s", "c", "a", "l", "a">>,
      <<".", "d", "a", "r", "t">>,
      <<".", "v", "u", "e">>,
      <<".", "s", "v", "e", "l", "t", "e">> }

ignorePatterns ==
    { <<"n", "o", "d", "e", "_", "m", "o", "d", "u", "l", "e", "s">>,
      <<".", "g", "i", "t">>,
      <<"d", "i", "s", "t">>,
      <<"b", "u", "i", "l", "d">>,
      <<".", "v", "s", "c", "o", "d", "e">>,
      <<"o", "u", "t">>,
      <<"b", "i", "n">>,
      <<"o", "b", "j">>,
      <<"_", "_", "p", "y", "c", "a", "c", "h", "e", "_", "_">>,
      <<".", "n", "e", "x", "t">>,
      <<".", "c", "a", "c", "h", "e">> }

\* The entries under the workspace root: name, Dirent type and the index of
\* the containing directory (0 is the root).  "out" is an ignored name;
\* "out.c" and "outs" contain it without being equal to it; "a.d" has an
\* extension outside the supported list; "l.c" is a symbolic link.
Tree ==
    << [name |-> <<"a", ".", "c">>, type |-> "file", parent |-> 0],
       [name |-> <<"o", "u", "t", ".", "c">>, type |-> "file", parent |-> 0],
       [name |-> <<"o", "u", "t">>, type |-> "dir", parent |-> 0],
       [name |-> <<"b", ".", "c">>, type |-> "file", parent |-> 3],
       [name |-> <<"o", "u", "t", "s">>, type |-> "dir", parent |-> 0],
       [name |-> <<"c", ".", "c">>, type |-> "file", parent |-> 5],
       [name |-> <<"a", ".", "d">>, type |-> "file", parent |-> 5],
       [name |-> <<"l", ".", "c">>, type |-> "link", parent |-> 0] >>

\* The root and the directories of the tree.
TreeDirs == {0} \cup {e \in 1..Len(Tree) : Tree[e].type = "dir"}

\* The files whose content may be unreadable.
MaybeUnreadable == {1, 6}

\* path.relative(rootPath, path.join(currentPath, entry.name))
RECURSIVE RelPath(_)
RelPath(e) ==
    IF Tree[e].parent = 0 THEN Tree[e].name
    ELSE RelPath(Tree[e].parent) \o <<"/">> \o Tree[e].name

\* The regular files of the tree, by root-relative path.
TreeDisk == {RelPath(e) : e \in {x \in 1..Len(Tree) : Tree[x].type = "file"}}

\* An ignore-list name anywhere inside the path.
shouldIgnoreMut(relativePath) ==
    \E pattern \in ignorePatterns : Includes(relativePath, pattern)

\* ignorePatterns.some(pattern => relativePath.split(path.sep).includes(pattern))
shouldIgnore(relativePath) ==
    LET parts == Split(relativePath, "/")
    IN \E pattern \in ignorePatterns : \E i \in 1..Len(parts) : parts[i] = pattern

\* What readdir yields for directory d, in the order of this run.
Entries(d) ==
    LET inDir == SelectSeq([e \in 1..Len(Tree) |-> e], LAMBDA e : Tree[e].parent = d)
    IN IF listing = "asc" THEN inDir
       ELSE [i \in 1..Len(inDir) |-> inDir[Len(inDir) + 1 - i]]

Top == stack[Len(stack)]

\* The entry the for loop of the innermost activation is at.
AtEntry ==
    /\ pc = "walk"
    /\ stack # <<>>
    /\ Top.read
    /\ Top.pending # <<>>

Entry == Head(Top.pending)

\* The loop of the innermost activation moves past its current entry.
Advance == [stack EXCEPT ![Len(stack)].pending = Tail(@)]

graphVars == <<nodes, edges, edgeMap, fileIdx, deps, circularDependencies,
               closedCycles, statistics>>

\* The rejection is swallowed and the directory treated as empty.
ReadDirFailsMut ==
    /\ pc = "walk"
    /\ stack # <<>>
    /\ ~Top.read
    /\ Top.dir \in badDirs
    /\ stack' = [stack EXCEPT ![Len(stack)].read = TRUE]
    /\ UNCHANGED <<pc, disk, files, graphVars, unreadable, badDirs, listing,
                   hostVars, aliasVars, firstRun, restVars>>

\* await fs.promises.readdir(currentPath) rejects.  No activation catches
\* it: every pending scanDirectory and scanWorkspace reject, and the catch
\* of the command handler shows the error.
ReadDirFails ==
    /\ pc = "walk"
    /\ stack # <<>>
    /\ ~Top.read
    /\ Top.dir \in badDirs
    /\ stack' = <<>>
    /\ pc' = "error"
    /\ notification' = "Error"
    /\ UNCHANGED <<disk, files, graphVars, unreadable, badDirs, listing,
                   currentPanel, inv, aliasVars, firstRun, restVars>>

\* await fs.promises.readdir(currentPath) fulfils with the entries.
ReadDir ==
    /\ pc = "walk"
    /\ stack # <<>>
    /\ ~Top.read
    /\ Top.dir \notin badDirs
    /\ stack' = [stack EXCEPT ![Len(stack)] =
                     [dir |-> Top.dir, read |-> TRUE, pending |-> Entries(Top.dir)]]
    /\ UNCHANGED <<pc, disk, files, graphVars, unreadable, badDirs, listing,
                   hostVars, aliasVars, firstRun, restVars>>

\* if (this.shouldIgnore(relativePath)) continue
SkipIgnored ==
    /\ AtEntry
    /\ shouldIgnore(RelPath(Entry))
    /\ stack' = Advance
    /\ UNCHANGED <<pc, disk, files, graphVars, unreadable, badDirs, listing,
                   hostVars, aliasVars, firstRun, restVars>>

\* entry.isDirectory(): await this.scanDirectory(rootPath, fullPath, files)
EnterSubdir ==
    /\ AtEntry
    /\ ~shouldIgnore(RelPath(Entry))
    /\ Tree[Entry].type = "dir"
    /\ stack' = Append(Advance, [dir |-> Entry, read |-> FALSE, pending |-> <<>>])
    /\ UNCHANGED <<pc, disk, files, graphVars, unreadable, badDirs, listing,
                   hostVars, aliasVars, firstRun, restVars>>

\* entry.isFile() with a supported extension, and readFile fulfils.
CollectFile ==
    /\ AtEntry
    /\ ~shouldIgnore(RelPath(Entry))
    /\ Tree[Entry].type = "file"
    /\ extname(Tree[Entry].name) \in supportedExtensions
    /\ Entry \notin unreadable
    /\ files' = Append(files,
                       [relativePath |-> RelPath(Entry),
                        language |-> getLanguageFromExtension(extname(Tree[Entry].name))])
    /\ stack' = Advance
    /\ UNCHANGED <<pc, disk, graphVars, unreadable, badDirs, listing,
                   hostVars, aliasVars, firstRun, restVars>>

\* The rejection of readFile leaves the try block and the walk.
SkipUnreadableMut ==
    /\ AtEntry
    /\ ~shouldIgnore(RelPath(Entry))
    /\ Tree[Entry].type = "file"
    /\ extname(Tree[Entry].name) \in supportedExtensions
    /\ Entry \in unreadable
    /\ stack' = <<>>
    /\ pc' = "error"
    /\ notification' = "Error"
    /\ UNCHANGED <<disk, files, graphVars, unreadable, badDirs, listing,
                   currentPanel, inv, aliasVars, firstRun, restVars>>

\* entry.isFile() with a supported extension, and readFile rejects: the
\* catch around it warns on the console and the loop goes on.
SkipUnreadable ==
    /\ AtEntry
    /\ ~shouldIgnore(RelPath(Entry))
    /\ Tree[Entry].type = "file"
    /\ extname(Tree[Entry].name) \in supportedExtensions
    /\ Entry \in unreadable
    /\ stack' = Advance
    /\ UNCHANGED <<pc, disk, files, graphVars, unreadable, badDirs, listing,
                   hostVars, aliasVars, firstRun, restVars>>

\* Neither a directory nor a regular file with a supported extension.
SkipOther ==
    /\ AtEntry
    /\ ~shouldIgnore(RelPath(Entry))
    /\ \/ Tree[Entry].type = "link"
       \/ /\ Tree[Entry].type = "file"
          /\ extname(Tree[Entry].name) \notin supportedExtensions
    /\ stack' = Advance
    /\ UNCHANGED <<pc, disk, files, graphVars, unreadable, badDirs, listing,
                   hostVars, aliasVars, firstRun, restVars>>

\* The for loop of the innermost activation is over: scanDirectory returns,
\* and with the outermost one scanWorkspace returns the files.
LeaveDir ==
    /\ pc = "walk"
    /\ stack # <<>>
    /\ Top.read
    /\ Top.pending = <<>>
    /\ stack' = SubSeq(stack, 1, Len(stack) - 1)
    /\ pc' = IF Len(stack) = 1 THEN "scan" ELSE "walk"
    /\ UNCHANGED <<disk, files, graphVars, unreadable, badDirs, listing,
                   hostVars, aliasVars, firstRun, restVars>>

\* VisualizationPanel.createOrShow(context.extensionUri, graphData): the
\* live panel is re-rendered with the new data, or a panel is created.
createOrShow(graphData) ==
    IF currentPanel.panel # 0
    THEN [currentPanel EXCEPT !.graphData = graphData]
    ELSE [panel |-> panels.created + 1, graphData |-> graphData]

\* The panels after createOrShow: vscode.window.createWebviewPanel makes a
\* new one only when there is no current panel.
createWebviewPanel ==
    IF currentPanel.panel # 0 THEN panels
    ELSE [alive |-> panels.alive \cup {panels.created + 1},
          created |-> panels.created + 1]

Show ==
    /\ pc = "done"
    /\ currentPanel' = createOrShow([nodes |-> nodes, edges |-> edges,
                                     circularDependencies |-> circularDependencies,
                                     statistics |-> statistics])
    /\ panels' = createWebviewPanel
    /\ pc' = "shown"
    /\ UNCHANGED <<disk, files, graphVars, scanVars, notification, inv,
                   aliasVars, firstRun, content, dependencies>>

\* The command is invoked again on the same tree after the previous
\* invocation ended; reads that succeeded may now fail and the reverse.
RescanTree ==
    /\ pc \in {"shown", "error"}
    /\ pc' = "walk"
    /\ notification' = "Scanning code..."
    /\ unreadable' \in SUBSET MaybeUnreadable
    /\ badDirs' \in SUBSET TreeDirs
    /\ listing' \in {"asc", "desc"}
    /\ stack' = <<[dir |-> 0, read |-> FALSE, pending |-> <<>>]>>
    /\ files' = <<>>
    /\ nodes' = <<>>
    /\ edges' = <<>>
    /\ edgeMap' = {}
    /\ fileIdx' = 0
    /\ deps' = <<>>
    /\ circularDependencies' = <<>>
    /\ closedCycles' = <<>>
    /\ statistics' = NoStatistics
    /\ UNCHANGED <<disk, currentPanel, inv, aliasVars, firstRun, restVars>>

InitScan ==
    /\ pc = "walk"
    /\ disk = TreeDisk
    /\ files = <<>>
    /\ nodes = <<>>
    /\ edges = <<>>
    /\ edgeMap = {}
    /\ fileIdx = 0
    /\ deps = <<>>
    /\ circularDependencies = <<>>
    /\ closedCycles = <<>>
    /\ statistics = NoStatistics
    /\ unreadable \in SUBSET MaybeUnreadable
    /\ badDirs \in SUBSET TreeDirs
    /\ listing \in {"asc", "desc"}
    /\ stack = <<[dir |-> 0, read |-> FALSE, pending |-> <<>>]>>
    /\ notification = "Scanning code..."
    /\ currentPanel = NoPanel
    /\ tsConfig = NoConfig
    /\ tsConfigPaths = <<>>
    /\ builds = 1
    /\ imports = <<>>
    /\ firstRun = NoRun
    /\ inv = <<>>
    /\ content = <<>>
    /\ panels = NoPanels
    /\ dependencies = NoDependencies

NextScan ==
    \/ ReadDir
    \/ ReadDirFails
    \/ SkipIgnored
    \/ EnterSubdir
    \/ CollectFile
    \/ SkipUnreadable
    \/ SkipOther
    \/ LeaveDir
    \/ CreateNodes
    \/ NextFile
    \/ Finish
    \/ Show
    \/ RescanTree

SpecScan == InitScan /\ [][NextScan]_vars

\* ======================================================================
\* Path aliases and the resolution of JavaScript/TypeScript references
\* ======================================================================
\* Two JavaScript files, one in the root and one in directory s.
AliasDisk == { <<"a", ".", "j", "s">>, <<"s", "/", "b", ".", "j", "s">> }

\* The tsconfig.json contents: none; one JSON.parse rejects; paths with an
\* empty array, a value that is no array, and "@/*": ["s/*"]; the same
\* alias followed, or preceded, by an entry whose first element is the
\* number 5.
GoodEntry ==
    [key |-> <<"@", "/", "*">>, isArray |-> TRUE,
     value |-> <<[isString |-> TRUE, str |-> <<"s", "/", "*">>]>>]

BadEntry ==
    [key |-> <<"#", "/", "*">>, isArray |-> TRUE,
     value |-> <<[isString |-> FALSE, str |-> <<>>]>>]

Configs ==
    { NoConfig,
      [state |-> "malformed"],
      [state |-> "parsed",
       paths |-> <<[key |-> <<"#", "/", "*">>, isArray |-> TRUE, value |-> <<>>],
                   [key |-> <<"#", "/", "*">>, isArray |-> FALSE, value |-> <<>>],
                   GoodEntry>>],
      [state |-> "parsed", paths |-> <<GoodEntry, BadEntry>>],
      [state |-> "parsed", paths |-> <<BadEntry, GoodEntry>>] }

\* The references the import and require patterns match in the files.
ImportPaths == { <<".", "/", "s", "/", "b">>, <<"@", "/", "b">>, <<"b">>, <<".", ".", "/", "a">> }

ImportKinds == {"import", "require"}

jsExtensions == << <<".", "t", "s">>, <<".", "t", "s", "x">>, <<".", "j", "s">>, <<".", "j", "s", "x">> >>

\* fs.existsSync(filePath) && fs.statSync(filePath).isFile()
fileExists(filePath) == \E q \in disk : FullPath(q) = filePath

\* The loop over the extensions from the i-th on: fullPath + ext, then
\* fullPath/index + ext; the path of the first that exists, else NULL.
RECURSIVE ProbeExts(_, _, _)
ProbeExts(fullPath, extensions, i) ==
    IF i > Len(extensions) THEN NULL
    ELSE IF fileExists(fullPath \o extensions[i]) THEN fullPath \o extensions[i]
    ELSE IF fileExists(pathJoin(fullPath, <<"i", "n", "d", "e", "x">> \o extensions[i]))
    THEN pathJoin(fullPath, <<"i", "n", "d", "e", "x">> \o extensions[i])
    ELSE ProbeExts(fullPath, extensions, i + 1)

\* The loop over this.tsConfigPaths.entries() from the i-th entry on.
RECURSIVE ProbeAliases(_, _, _)
ProbeAliases(importPath, extensions, i) ==
    IF i > Len(tsConfigPaths) THEN NULL
    ELSE IF StartsWith(importPath, tsConfigPaths[i].alias)
    THEN LET relativePath == Replace(importPath, tsConfigPaths[i].alias,
                                     tsConfigPaths[i].aliasPath)
             hit == ProbeExts(pathJoin(workspacePath, relativePath), extensions, 1)
         IN IF hit # NULL THEN hit
            ELSE ProbeAliases(importPath, extensions, i + 1)
    ELSE ProbeAliases(importPath, extensions, i + 1)

\* The relative branch, the bare path probed first and the extensions only
\* from the third on.
ProbeRelativeMut(importPath, currentDir, extensions) ==
    IF StartsWith(importPath, <<".">>) \/ StartsWith(importPath, <<"/">>)
    THEN LET fullPath == pathResolve(currentDir, importPath)
             hit == ProbeExts(fullPath, extensions, 3)
         IN IF fileExists(fullPath) THEN fullPath
            ELSE hit
    ELSE NULL

\* The relative branch: only for references that start with "." or "/".
ProbeRelative(importPath, currentDir, extensions) ==
    IF StartsWith(importPath, <<".">>) \/ StartsWith(importPath, <<"/">>)
    THEN LET fullPath == pathResolve(currentDir, importPath)
             hit == ProbeExts(fullPath, extensions, 1)
         IN IF hit # NULL THEN hit
            ELSE IF fileExists(fullPath) THEN fullPath
            ELSE NULL
    ELSE NULL

\* The absolute path of the file the reference resolves to, else NULL.
ResolveHit(importPath, currentDir, extensions) ==
    IF ProbeAliases(importPath, extensions, 1) # NULL
    THEN ProbeAliases(importPath, extensions, 1)
    ELSE ProbeRelative(importPath, currentDir, extensions)

\* A reference that is neither aliased nor relative falls back to a file
\* with its base name.
resolveImportPathMut(importPath, currentDir, extensions) ==
    IF ResolveHit(importPath, currentDir, extensions) # NULL
    THEN getNodeId(pathRelative(workspacePath,
                                ResolveHit(importPath, currentDir, extensions)))
    ELSE IF \E q \in disk : basename(q) = importPath \o extensions[3]
    THEN getNodeId(CHOOSE q \in disk : basename(q) = importPath \o extensions[3])
    ELSE NULL

\* resolveImportPath: path.relative(workspacePath, hit).replace(/\\/g, '/')
resolveImportPath(importPath, currentDir, extensions) ==
    IF ResolveHit(importPath, currentDir, extensions) # NULL
    THEN getNodeId(pathRelative(workspacePath,
                                ResolveHit(importPath, currentDir, extensions)))
    ELSE NULL

\* The file of the tree at an absolute path, by root-relative path.
FileAt(filePath) ==
    IF fileExists(filePath) THEN CHOOSE q \in disk : FullPath(q) = filePath
    ELSE NULL

\* One match of the import or require pattern in the current file, and the
\* iteration of `for (const depInfo of dependencies)` it gives rise to when
\* it resolves.  Matches come pattern loop by pattern loop.
ProcessImport(importPath, type) ==
    /\ pc = "edges"
    /\ fileIdx <= Len(files)
    /\ files[fileIdx].language = "javascript"
    /\ Len(imports) < MaxImports
    /\ \A i \in 1..Len(imports) :
          imports[i].file = fileIdx =>
              KindRank("javascript", imports[i].type) <= KindRank("javascript", type)
    /\ LET dir == dirname(FullPath(files[fileIdx].relativePath))
           resolved == resolveImportPath(importPath, dir, jsExtensions)
           depInfo == [path |-> resolved, type |-> type,
                       resolved |-> FileAt(ResolveHit(importPath, dir, jsExtensions))]
           sourceId == getNodeId(files[fileIdx].relativePath)
           targetId == findMatchingNode(depInfo.path, nodes)
           key == edgeKey(sourceId, targetId)
           existingEdge == EdgeMapGet(key)
       IN /\ imports' = Append(imports, [file |-> fileIdx, importPath |-> importPath,
                                         type |-> type, resolved |-> resolved])
          /\ IF resolved # NULL
             THEN /\ deps' = [deps EXCEPT ![fileIdx] = Append(@, depInfo)]
                  /\ IF IsLink(targetId, sourceId)
                     THEN IF existingEdge # 0
                          THEN /\ edges' = [edges EXCEPT ![existingEdge] = BumpEdge(@)]
                               /\ edgeMap' = edgeMap
                          ELSE /\ edges' = Append(edges, NewEdge(sourceId, targetId, depInfo))
                               /\ edgeMap' = edgeMap \cup {[key |-> key, idx |-> Len(edges) + 1]}
                     ELSE UNCHANGED <<edges, edgeMap>>
             ELSE UNCHANGED <<deps, edges, edgeMap>>
    /\ UNCHANGED <<pc, disk, files, nodes, fileIdx, circularDependencies,
                   closedCycles, statistics>>
    /\ UNCHANGED <<scanVars, hostVars, tsConfig, tsConfigPaths, builds, firstRun, restVars>>

\* buildGraph is called again on the same DependencyGraph object, for a
\* root with the same files and the given tsconfig.json: the locals are
\* new, the fields of the object are as the previous call left them.
BuildAgain(config) ==
    /\ pc = "done"
    /\ builds < MaxBuilds
    /\ builds' = builds + 1
    /\ tsConfig' = config
    /\ pc' = "scan"
    /\ files' = <<>>
    /\ nodes' = <<>>
    /\ edges' = <<>>
    /\ edgeMap' = {}
    /\ fileIdx' = 0
    /\ deps' = <<>>
    /\ circularDependencies' = <<>>
    /\ closedCycles' = <<>>
    /\ statistics' = NoStatistics
    /\ imports' = <<>>
    /\ UNCHANGED <<disk, scanVars, hostVars, tsConfigPaths, firstRun, restVars>>

\* The command is invoked again: new CodeScanner(), new DependencyGraph();
\* the tsconfig.json may have been edited in between.
RescanAlias(config) ==
    /\ pc = "done"
    /\ tsConfig' = config
    /\ tsConfigPaths' = <<>>
    /\ builds' = 1
    /\ pc' = "scan"
    /\ files' = <<>>
    /\ nodes' = <<>>
    /\ edges' = <<>>
    /\ edgeMap' = {}
    /\ fileIdx' = 0
    /\ deps' = <<>>
    /\ circularDependencies' = <<>>
    /\ closedCycles' = <<>>
    /\ statistics' = NoStatistics
    /\ imports' = <<>>
    /\ UNCHANGED <<disk, scanVars, hostVars, firstRun, restVars>>

InitAlias ==
    /\ pc = "scan"
    /\ disk = AliasDisk
    /\ files = <<>>
    /\ nodes = <<>>
    /\ edges = <<>>
    /\ edgeMap = {}
    /\ fileIdx = 0
    /\ deps = <<>>
    /\ circularDependencies = <<>>
    /\ closedCycles = <<>>
    /\ statistics = NoStatistics
    /\ unreadable = {}
    /\ badDirs = {}
    /\ listing = "asc"
    /\ stack = <<>>
    /\ notification = "Scanning code..."
    /\ currentPanel = NoPanel
    /\ tsConfig \in Configs
    /\ tsConfigPaths = <<>>
    /\ builds = 1
    /\ imports = <<>>
    /\ firstRun = NoRun
    /\ inv = <<>>
    /\ content = <<>>
    /\ panels = NoPanels
    /\ dependencies = NoDependencies

NextAlias ==
    \/ \E p \in disk : ScanFile(p)
    \/ CreateNodes
    \/ \E importPath \in ImportPaths : \E type \in ImportKinds :
          ProcessImport(importPath, type)
    \/ NextFile
    \/ Finish
    \/ \E config \in Configs : BuildAgain(config)
    \/ \E config \in Configs : RescanAlias(config)

SpecAlias == InitAlias /\ [][NextAlias]_vars

\* ======================================================================
\* Two runs over an unchanged tree
\* ======================================================================
\* In the second run the directory listing yields the files in the order of
\* the first.
TwiceScanFile(p) ==
    /\ firstRun.recorded =>
          /\ Len(files) < Len(firstRun.files)
          /\ firstRun.files[Len(files) + 1].relativePath = p
    /\ ScanFile(p)

TwiceCreateNodes ==
    /\ firstRun.recorded => Len(files) = Len(firstRun.files)
    /\ CreateNodes

\* In the second run the contents are those of the first: every file yields
\* the same references in the same order.
TwiceProcessDep(q, type) ==
    /\ firstRun.recorded =>
          /\ pc = "edges"
          /\ fileIdx <= Len(files)
          /\ Len(deps[fileIdx]) < Len(firstRun.deps[fileIdx])
          /\ firstRun.deps[fileIdx][Len(deps[fileIdx]) + 1].resolved = q
          /\ firstRun.deps[fileIdx][Len(deps[fileIdx]) + 1].type = type
    /\ ProcessDep(q, type)

TwiceNextFile ==
    /\ firstRun.recorded =>
          /\ pc = "edges"
          /\ fileIdx <= Len(files)
          /\ Len(deps[fileIdx]) = Len(firstRun.deps[fileIdx])
    /\ NextFile

\* The second invocation starts from what the first left in its locals.
RunAgainMut ==
    /\ pc = "done"
    /\ ~firstRun.recorded
    /\ firstRun' = [recorded |-> TRUE, files |-> files, deps |-> deps,
                    nodes |-> nodes, edges |-> edges,
                    circularDependencies |-> circularDependencies]
    /\ pc' = "scan"
    /\ files' = <<>>
    /\ nodes' = <<>>
    /\ fileIdx' = 0
    /\ deps' = <<>>
    /\ circularDependencies' = <<>>
    /\ closedCycles' = <<>>
    /\ statistics' = NoStatistics
    /\ UNCHANGED <<disk, edges, edgeMap, scanVars, hostVars, aliasVars, restVars>>

\* The command is invoked a second time on the unchanged tree: a new
\* scanner, a new graph, new locals.  The first run is remembered.
RunAgain ==
    /\ pc = "done"
    /\ ~firstRun.recorded
    /\ firstRun' = [recorded |-> TRUE, files |-> files, deps |-> deps,
                    nodes |-> nodes, edges |-> edges,
                    circularDependencies |-> circularDependencies]
    /\ pc' = "scan"
    /\ files' = <<>>
    /\ nodes' = <<>>
    /\ edges' = <<>>
    /\ edgeMap' = {}
    /\ fileIdx' = 0
    /\ deps' = <<>>
    /\ circularDependencies' = <<>>
    /\ closedCycles' = <<>>
    /\ statistics' = NoStatistics
    /\ UNCHANGED <<disk, scanVars, hostVars, aliasVars, restVars>>

NextTwice ==
    \/ \E p \in disk : TwiceScanFile(p)
    \/ TwiceCreateNodes
    \/ \E q \in disk : \E type \in DependencyType : TwiceProcessDep(q, type)
    \/ TwiceNextFile
    \/ Finish
    \/ RunAgain

\* The tree of two runs: three C files in the root.
TwiceDisk == {pA, pB, pC}

InitTwice ==
    /\ pc = "scan"
    /\ disk = TwiceDisk
    /\ files = <<>>
    /\ nodes = <<>>
    /\ edges = <<>>
    /\ edgeMap = {}
    /\ fileIdx = 0
    /\ deps = <<>>
    /\ circularDependencies = <<>>
    /\ closedCycles = <<>>
    /\ statistics = NoStatistics
    /\ InitRest

SpecTwice == InitTwice /\ [][NextTwice]_vars

\* ======================================================================
\* The command handler under repeated invocation
\* ======================================================================
\* What readdir yields for the root of the two-file tree.
HostFiles == <<pA, pB>>

\* No invocation of the handler is running in this slot.
Idle == [pc |-> "idle", next |-> 0, files |-> <<>>]

\* The command is invoked: the handler shows 'Scanning code...', creates a
\* scanner and awaits scanWorkspace.  Nothing in the handler looks at other
\* invocations.
Invoke(i) ==
    /\ inv[i].pc = "idle"
    /\ inv' = [inv EXCEPT ![i] = [pc |-> "scanning", next |-> 1, files |-> <<>>]]
    /\ notification' = "Scanning code..."
    /\ UNCHANGED <<pc, disk, files, graphVars, scanVars, currentPanel,
                   aliasVars, firstRun, restVars>>

\* An awaited readFile of invocation i fulfils: files.push.
HostCollect(i) ==
    /\ inv[i].pc = "scanning"
    /\ inv[i].next <= Len(HostFiles)
    /\ inv' = [inv EXCEPT ![i].next = @ + 1,
                          ![i].files = Append(@,
                              [relativePath |-> HostFiles[inv[i].next],
                               language |-> getLanguageFromExtension(
                                                extname(HostFiles[inv[i].next]))])]
    /\ UNCHANGED <<pc, disk, files, graphVars, scanVars, notification,
                   currentPanel, aliasVars, firstRun, restVars>>

\* An awaited readFile of invocation i rejects: the file is skipped.
HostSkip(i) ==
    /\ inv[i].pc = "scanning"
    /\ inv[i].next <= Len(HostFiles)
    /\ inv' = [inv EXCEPT ![i].next = @ + 1]
    /\ UNCHANGED <<pc, disk, files, graphVars, scanVars, notification,
                   currentPanel, aliasVars, firstRun, restVars>>

\* scanWorkspace of invocation i returns; buildGraph runs on its files (no
\* file holds a reference) and createOrShow shows the result.
Complete(i) ==
    /\ inv[i].pc = "scanning"
    /\ inv[i].next > Len(HostFiles)
    /\ LET built == [k \in 1..Len(inv[i].files) |-> NewNode(inv[i].files[k])]
       IN currentPanel' = createOrShow([nodes |-> built, edges |-> <<>>,
                                        circularDependencies |-> <<>>,
                                        statistics |-> Statistics(built, <<>>, <<>>)])
    /\ panels' = createWebviewPanel
    /\ inv' = [inv EXCEPT ![i] = Idle]
    /\ UNCHANGED <<pc, disk, files, graphVars, scanVars, notification,
                   aliasVars, firstRun, content, dependencies>>

\* dispose() without `VisualizationPanel.currentPanel = undefined`.
disposeMut(panel) == currentPanel

\* dispose(): VisualizationPanel.currentPanel = undefined, whichever panel
\* the instance wraps.
dispose(panel) == NoPanel

\* The user closes a panel: onDidDispose fires and the listener the
\* constructor registered calls dispose().
ClosePanel(panel) ==
    /\ panel \in panels.alive
    /\ panels.created < MaxPanels
    /\ panels' = [panels EXCEPT !.alive = @ \ {panel}]
    /\ currentPanel' = dispose(panel)
    /\ UNCHANGED <<pc, disk, files, graphVars, scanVars, notification, inv,
                   aliasVars, firstRun, content, dependencies>>

InitHost ==
    /\ pc = "scan"
    /\ disk = WeightDisk
    /\ files = <<>>
    /\ nodes = <<>>
    /\ edges = <<>>
    /\ edgeMap = {}
    /\ fileIdx = 0
    /\ deps = <<>>
    /\ circularDependencies = <<>>
    /\ closedCycles = <<>>
    /\ statistics = NoStatistics
    /\ unreadable = {}
    /\ badDirs = {}
    /\ listing = "asc"
    /\ stack = <<>>
    /\ notification = "none"
    /\ currentPanel = NoPanel
    /\ tsConfig = NoConfig
    /\ tsConfigPaths = <<>>
    /\ builds = 1
    /\ imports = <<>>
    /\ firstRun = NoRun
    /\ inv = [i \in 1..MaxInvocations |-> Idle]
    /\ content = <<>>
    /\ panels = NoPanels
    /\ dependencies = NoDependencies

NextHost ==
    \/ \E i \in 1..MaxInvocations : Invoke(i)
    \/ \E i \in 1..MaxInvocations : HostCollect(i)
    \/ \E i \in 1..MaxInvocations : HostSkip(i)
    \/ \E i \in 1..MaxInvocations : Complete(i)
    \/ \E panel \in 1..MaxPanels : ClosePanel(panel)

SpecHost == InitHost /\ [][NextHost]_vars

\* ======================================================================
\* Extraction and resolution per language, from the text of the files
\* ======================================================================
goExtensions == << <<".", "g", "o">> >>

\* The loop of resolvePythonImport over the segments from the i-th on.
RECURSIVE PythonWalk(_, _, _)
PythonWalk(parts, i, searchPath) ==
    IF i > Len(parts) THEN NULL
    ELSE LET potentialPath == pathJoin(searchPath, parts[i])
             pyFile == potentialPath \o <<".", "p", "y">>
             initFile == pathJoin(potentialPath, <<"_", "_", "i", "n", "i", "t", "_", "_", ".", "p", "y">>)
         IN IF fileExists(pyFile) THEN pyFile
            ELSE IF fileExists(initFile) THEN PythonWalk(parts, i + 1, potentialPath)
            ELSE NULL

\* The file resolvePythonImport finds, by absolute path, else NULL.
PythonHit(importPath, currentDir) == PythonWalk(Split(importPath, "."), 1, currentDir)

resolvePythonImport(importPath, currentDir) ==
    IF PythonHit(importPath, currentDir) # NULL
    THEN getNodeId(pathRelative(workspacePath, PythonHit(importPath, currentDir)))
    ELSE NULL

\* The loop of resolveJavaImport: the package path with className + '.java'
\* under searchDir, then under its parents, ten directories at most.
RECURSIVE JavaWalk(_, _, _)
JavaWalk(parts, searchDir, i) ==
    IF i >= 10 THEN NULL
    ELSE LET className == parts[Len(parts)]
             packagePath == Join(SubSeq(parts, 1, Len(parts) - 1), <<"/">>)
             potentialPath == pathJoin(pathJoin(searchDir, packagePath),
                                       className \o <<".", "j", "a", "v", "a">>)
         IN IF fileExists(potentialPath) THEN potentialPath
            ELSE IF dirname(searchDir) = searchDir THEN NULL
            ELSE JavaWalk(parts, dirname(searchDir), i + 1)

JavaHit(importPath, currentDir) == JavaWalk(Split(importPath, "."), currentDir, 0)

resolveJavaImport(importPath, currentDir) ==
    IF JavaHit(importPath, currentDir) # NULL
    THEN getNodeId(pathRelative(workspacePath, JavaHit(importPath, currentDir)))
    ELSE NULL

\* The resolver extractDependencies calls for a statement of the language:
\* the file found, by absolute path.
HitFor(language, ref, dir) ==
    CASE language \in {"javascript", "typescript"} -> ResolveHit(ref, dir, jsExtensions)
      [] language = "go" -> ResolveHit(ref, dir, goExtensions)
      [] language = "python" -> PythonHit(ref, dir)
      [] language \in {"java", "csharp"} -> JavaHit(ref, dir)
      [] OTHER -> NULL

\* The same call: the path it returns.
ResolvedFor(language, ref, dir) ==
    CASE language \in {"javascript", "typescript"} -> resolveImportPath(ref, dir, jsExtensions)
      [] language = "go" -> resolveImportPath(ref, dir, goExtensions)
      [] language = "python" -> resolvePythonImport(ref, dir)
      [] language \in {"java", "csharp"} -> resolveJavaImport(ref, dir)
      [] OTHER -> NULL

\* One `while ((match = regex.exec(content)) !== null)` loop: the matches of
\* one pattern from statement i on, in text order; those that resolve are
\* pushed.
RECURSIVE ExtractPattern(_, _, _)
ExtractPattern(file, type, i) ==
    LET text == content[file.relativePath]
        dir == dirname(FullPath(file.relativePath))
    IN IF i > Len(text) THEN <<>>
       ELSE (IF text[i].kind = type /\ ResolvedFor(file.language, text[i].ref, dir) # NULL
             THEN <<[path |-> ResolvedFor(file.language, text[i].ref, dir),
                     type |-> type,
                     lineNumber |-> i,
                     resolved |-> FileAt(HitFor(file.language, text[i].ref, dir))]>>
             ELSE <<>>)
            \o ExtractPattern(file, type, i + 1)

\* extractDependencies: the pattern loops of the file's language in the
\* order of the source, each over the whole text.
RECURSIVE ExtractLoops(_, _)
ExtractLoops(file, k) ==
    IF k > Len(KindOrder(file.language)) THEN <<>>
    ELSE ExtractPattern(file, KindOrder(file.language)[k], 1) \o ExtractLoops(file, k + 1)

\* The dependencies in the order of the text, whatever their pattern.
extractDependenciesMut(file) ==
    LET found == ExtractLoops(file, 1)
    IN [n \in 1..Len(found) |->
           found[CHOOSE j \in 1..Len(found) :
                     Cardinality({h \in 1..Len(found) :
                                     found[h].lineNumber < found[j].lineNumber}) = n - 1]]

extractDependencies(file) == ExtractLoops(file, 1)

\* scanWorkspace on a tree whose reads succeed: the files with a supported
\* extension, in the order the listing yields them.
ScanAll ==
    /\ pc = "scan"
    /\ files = <<>>
    /\ LET found == SelectSeq(listing,
                              LAMBDA p : p \in disk /\ extname(p) \in supportedExtensions)
       IN /\ found # <<>>
          /\ files' = [i \in 1..Len(found) |->
                          [relativePath |-> found[i],
                           language |-> getLanguageFromExtension(extname(found[i]))]]
    /\ UNCHANGED <<pc, disk, graphVars, scanVars, hostVars, aliasVars, firstRun,
                   restVars>>

\* buildGraph is called with what the scan collected.
BuildText ==
    /\ files # <<>>
    /\ CreateNodes

\* `const dependencies = this.extractDependencies(file, workspacePath)` for
\* the current file.
Extract ==
    /\ pc = "edges"
    /\ fileIdx <= Len(files)
    /\ dependencies.file # fileIdx
    /\ dependencies' = [file |-> fileIdx, list |-> extractDependencies(files[fileIdx])]
    /\ UNCHANGED <<pc, disk, files, graphVars, scanVars, hostVars, aliasVars,
                   firstRun, content, panels>>

\* One iteration of `for (const depInfo of dependencies)`.
LinkNext ==
    /\ pc = "edges"
    /\ fileIdx <= Len(files)
    /\ dependencies.file = fileIdx
    /\ Len(deps[fileIdx]) < Len(dependencies.list)
    /\ LET depInfo == dependencies.list[Len(deps[fileIdx]) + 1]
           sourceId == getNodeId(files[fileIdx].relativePath)
           targetId == findMatchingNode(depInfo.path, nodes)
           key == edgeKey(sourceId, targetId)
           existingEdge == EdgeMapGet(key)
       IN /\ deps' = [deps EXCEPT ![fileIdx] = Append(@, depInfo)]
          /\ IF IsLink(targetId, sourceId)
             THEN IF existingEdge # 0
                  THEN /\ edges' = [edges EXCEPT ![existingEdge] = BumpEdge(@)]
                       /\ edgeMap' = edgeMap
                  ELSE /\ edges' = Append(edges, NewEdge(sourceId, targetId, depInfo))
                       /\ edgeMap' = edgeMap \cup {[key |-> key, idx |-> Len(edges) + 1]}
             ELSE UNCHANGED <<edges, edgeMap>>
    /\ UNCHANGED <<pc, disk, files, nodes, fileIdx, circularDependencies,
                   closedCycles, statistics>>
    /\ UNCHANGED <<scanVars, hostVars, aliasVars, firstRun, restVars>>

\* The dependencies of the current file are exhausted: next file.
NextFileText ==
    /\ pc = "edges"
    /\ fileIdx <= Len(files)
    /\ dependencies.file = fileIdx
    /\ Len(deps[fileIdx]) = Len(dependencies.list)
    /\ NextFile

\* The trees and texts: the file whose text holds statements, the other
\* files that may exist (in listing order), the references and statement
\* kinds of the text, and the tsconfig.json contents.
TwoAliases ==
    [state |-> "parsed",
     paths |-> <<[key |-> <<"@", "/", "*">>, isArray |-> TRUE,
                  value |-> <<[isString |-> TRUE, str |-> <<"x", "/", "*">>]>>],
                 [key |-> <<"@", "/", "m">>, isArray |-> TRUE,
                  value |-> <<[isString |-> TRUE, str |-> <<".", "/", "m">>]>>]>>]

Scenarios ==
    { [importer |-> <<"a", ".", "j", "s">>,
       others |-> << <<"m", ".", "t", "s">>, <<"m", "/", "i", "n", "d", "e", "x", ".", "t", "s">>, <<"m", ".", "j", "s">>, <<"m", "/", "i", "n", "d", "e", "x", ".", "j", "s">> >>,
       refs |-> { <<".", "/", "m">>, <<".", "/", "m", ".", "j", "s">>, <<"@", "/", "m">> },
       kinds |-> {"import", "require"},
       configs |-> {NoConfig, TwoAliases}],
      [importer |-> <<"m", "a", "i", "n", ".", "g", "o">>,
       others |-> << <<"u", "t", "i", "l", ".", "g", "o">>, <<"s", "/", "u", "t", "i", "l", ".", "g", "o">> >>,
       refs |-> { <<"u", "t", "i", "l">>, <<".", "/", "u", "t", "i", "l">>, <<"s", "/", "u", "t", "i", "l">> },
       kinds |-> {"import"},
       configs |-> {NoConfig}],
      [importer |-> <<"m", "a", "i", "n", ".", "p", "y">>,
       others |-> << <<"p", "k", "g", "/", "_", "_", "i", "n", "i", "t", "_", "_", ".", "p", "y">>, <<"p", "k", "g", "/", "m", "o", "d", ".", "p", "y">>, <<"p", "k", "g", ".", "p", "y">>, <<"m", "o", "d", ".", "p", "y">> >>,
       refs |-> { <<"p", "k", "g", ".", "m", "o", "d">>, <<"p", "k", "g">> },
       kinds |-> {"import", "from"},
       configs |-> {NoConfig}],
      [importer |-> <<"p", "k", "g", "/", "x", ".", "p", "y">>,
       others |-> << <<"p", "k", "g", "/", "_", "_", "i", "n", "i", "t", "_", "_", ".", "p", "y">>, <<"p", "k", "g", "/", "m", "o", "d", ".", "p", "y">>, <<"p", "k", "g", ".", "p", "y">> >>,
       refs |-> { <<".", "m", "o", "d">>, <<"m", "o", "d">> },
       kinds |-> {"from"},
       configs |-> {NoConfig}],
      [importer |-> <<"x", ".", "c", "s">>,
       others |-> << <<"a", "/", "b", "/", "C", ".", "c", "s">>, <<"a", "/", "b", "/", "C", ".", "j", "a", "v", "a">>, <<"C", ".", "c", "s">> >>,
       refs |-> { <<"a", ".", "b", ".", "C">>, <<"C">> },
       kinds |-> {"using"},
       configs |-> {NoConfig}],
      [importer |-> <<"x", ".", "j", "a", "v", "a">>,
       others |-> << <<"a", "/", "b", "/", "C", ".", "j", "a", "v", "a">>, <<"a", "/", "b", "/", "C", ".", "c", "s">> >>,
       refs |-> { <<"a", ".", "b", ".", "C">> },
       kinds |-> {"import"},
       configs |-> {NoConfig}] }

\* The texts of at most MaxLines statements.
Texts(sc) ==
    UNION {[1..n -> [kind : sc.kinds, ref : sc.refs]] : n \in 0..MaxLines}

InitLang ==
    /\ pc = "scan"
    /\ \E sc \in Scenarios :
          /\ \E present \in SUBSET {sc.others[i] : i \in 1..Len(sc.others)} :
                /\ disk = {sc.importer} \cup present
                /\ \E text \in Texts(sc) :
                      content = [p \in disk |-> IF p = sc.importer THEN text ELSE <<>>]
          /\ listing = <<sc.importer>> \o sc.others
          /\ tsConfig \in sc.configs
    /\ files = <<>>
    /\ nodes = <<>>
    /\ edges = <<>>
    /\ edgeMap = {}
    /\ fileIdx = 0
    /\ deps = <<>>
    /\ circularDependencies = <<>>
    /\ closedCycles = <<>>
    /\ statistics = NoStatistics
    /\ unreadable = {}
    /\ badDirs = {}
    /\ stack = <<>>
    /\ notification = "Scanning code..."
    /\ currentPanel = NoPanel
    /\ tsConfigPaths = <<>>
    /\ builds = 1
    /\ imports = <<>>
    /\ firstRun = NoRun
    /\ inv = <<>>
    /\ panels = NoPanels
    /\ dependencies = NoDependencies

NextLang ==
    \/ ScanAll
    \/ BuildText
    \/ Extract
    \/ LinkNext
    \/ NextFileText
    \/ Finish

SpecLang == InitLang /\ [][NextLang]_vars

\* ======================================================================
\* Properties
\* ======================================================================
Done == pc = "done"

NodeIds == {nodes[k].id : k \in 1..Len(nodes)}

Collected == {files[i].relativePath : i \in 1..Len(files)}

EdgesBetween(from, to) ==
    {j \in 1..Len(edges) : edges[j].from = from /\ edges[j].to = to}

HasEdge(from, to) == EdgesBetween(from, to) # {}

\* The node id a resolved path is matched to: the first node with that path,
\* else the first node with that base file name, else NULL.
MatchOf(depPath) ==
    IF \E n \in 1..Len(nodes) : nodes[n].path = depPath
    THEN nodes[CHOOSE n \in 1..Len(nodes) :
              /\ nodes[n].path = depPath
              /\ \A m \in 1..(n - 1) : nodes[m].path # depPath].id
    ELSE IF \E n \in 1..Len(nodes) : basename(nodes[n].path) = basename(depPath)
    THEN nodes[CHOOSE n \in 1..Len(nodes) :
              /\ basename(nodes[n].path) = basename(depPath)
              /\ \A m \in 1..(n - 1) : basename(nodes[m].path) # basename(depPath)].id
    ELSE NULL

\* The number of references of file i that were matched to the node id.
RefsResolvedTo(i, id) ==
    Cardinality({k \in 1..Len(deps[i]) : MatchOf(deps[i][k].path) = id})

\* A step of the reference loop, and the reference it consumed.
DepStep ==
    /\ pc = "edges" /\ pc' = "edges"
    /\ fileIdx' = fileIdx
    /\ fileIdx <= Len(files)
    /\ Len(deps'[fileIdx]) = Len(deps[fileIdx]) + 1

StepDep == deps'[fileIdx][Len(deps'[fileIdx])]

\* The ids reachable from id by one or more edges.
RECURSIVE ReachFrom(_, _)
ReachFrom(S, n) ==
    IF n = 0 THEN S
    ELSE ReachFrom(S \cup {edges[j].to : j \in {h \in 1..Len(edges) : edges[h].from \in S}},
                   n - 1)

OnCycle(id) ==
    id \in ReachFrom({edges[j].to : j \in {h \in 1..Len(edges) : edges[h].from = id}},
                     Len(nodes))

\* C1: after a scan, for every ordered pair of nodes with distinct ids (A, B),
\* if some reference of A was matched to B there is exactly one edge A -> B
\* and its count is the number of such references; otherwise there is no
\* edge A -> B.
C1_OneEdgePerResolvedPair ==
    Done =>
        \A i, j \in 1..Len(nodes) :
            nodes[i].id # nodes[j].id =>
                LET n == RefsResolvedTo(i, nodes[j].id)
                    between == EdgesBetween(nodes[i].id, nodes[j].id)
                IN IF n > 0
                   THEN /\ Cardinality(between) = 1
                        /\ \A e \in between : edges[e].count = n
                   ELSE between = {}

\* C2: no edge ever has the same source and target id, and a reference that
\* is matched to the referencing file's own node (exactly or through the
\* base-name fallback) leaves the edge list, counts included, unchanged.
C2_NoSelfEdges ==
    [][ /\ \A j \in 1..Len(edges') : edges'[j].from # edges'[j].to
        /\ (DepStep /\ MatchOf(StepDep.path) = nodes[fileIdx].id)
              => edges' = edges ]_vars

\* A finished scan in which a file referred to itself through the
\* base-name fallback.
C2_Witness ==
    /\ Done
    /\ \E i \in 1..Len(nodes) : \E k \in 1..Len(deps[i]) :
          /\ \A n \in 1..Len(nodes) : nodes[n].path # deps[i][k].path
          /\ basename(nodes[i].path) = basename(deps[i][k].path)
          /\ RefsResolvedTo(i, nodes[i].id) > 0

\* C3: one node per collected file, node ids pairwise distinct, and each id
\* is the file's relative path with "\" replaced by "/".
C3_UniqueNormalizedIds ==
    Done =>
        /\ Len(nodes) = Len(files)
        /\ \A i, j \in 1..Len(nodes) : i # j => nodes[i].id # nodes[j].id
        /\ \A i \in 1..Len(nodes) :
              /\ Len(nodes[i].id) = Len(files[i].relativePath)
              /\ \A c \in 1..Len(nodes[i].id) :
                    nodes[i].id[c] = IF files[i].relativePath[c] = "\\" THEN "/"
                                     ELSE files[i].relativePath[c]

RECURSIVE SumOver(_, _)
SumOver(f, n) == IF n = 0 THEN 0 ELSE f[n] + SumOver(f, n - 1)

\* C4: the dependency counts and the dependent counts each sum to the number
\* of edges, and each node's counts are the numbers of edges that have the
\* node as source and as target.
C4_CountsMatchEdges ==
    Done =>
        /\ SumOver([k \in 1..Len(nodes) |-> nodes[k].dependencyCount], Len(nodes))
              = Len(edges)
        /\ SumOver([k \in 1..Len(nodes) |-> nodes[k].dependentCount], Len(nodes))
              = Len(edges)
        /\ \A k \in 1..Len(nodes) :
              /\ nodes[k].dependencyCount =
                    Cardinality({j \in 1..Len(edges) : edges[j].from = nodes[k].id})
              /\ nodes[k].dependentCount =
                    Cardinality({j \in 1..Len(edges) : edges[j].to = nodes[k].id})

\* C5: every node id that lies on a directed cycle of the edges belongs to a
\* node flagged circular.
C5_AllCycleNodesFlagged ==
    Done =>
        \A id \in NodeIds :
            OnCycle(id) => \E k \in 1..Len(nodes) : nodes[k].id = id /\ nodes[k].isCircular

\* C6: every cycle record is the path slice of a back-edge, in traversal
\* order: each element has an edge to the next and the last to the first.
C6_RecordsAreOrderedCycles ==
    Done =>
        \A c \in 1..Len(circularDependencies) :
            LET rec == circularDependencies[c]
            IN /\ \E s \in 1..Len(closedCycles) : closedCycles[s] = rec
               /\ \A i \in 1..Len(rec) : HasEdge(rec[i], rec[(i % Len(rec)) + 1])

\* C7: for every cycle the search closes, each edge from a node of the cycle
\* to the next one (wrapping around) is flagged circular.
C7_CycleEdgesFlagged ==
    Done =>
        \A s \in 1..Len(closedCycles) :
            LET cyc == closedCycles[s]
            IN \A i \in 1..Len(cyc) :
                  \A e \in EdgesBetween(cyc[i], cyc[(i % Len(cyc)) + 1]) :
                      edges[e].isCircular

\* C8: a node is flagged circular exactly when its id occurs in some cycle
\* record.
C8_FlagIffInRecord ==
    Done =>
        \A k \in 1..Len(nodes) :
            nodes[k].isCircular <=>
                \E c \in 1..Len(circularDependencies) :
                    \E i \in 1..Len(circularDependencies[c]) :
                        circularDependencies[c][i] = nodes[k].id

RecordSet(c) == {circularDependencies[c][i] : i \in 1..Len(circularDependencies[c])}

\* C9: no two cycle records have the same set of node ids.
C9_NoDuplicateNodeSets ==
    Done =>
        \A c, d \in 1..Len(circularDependencies) :
            c # d => RecordSet(c) # RecordSet(d)

\* A finished scan with two cycle records that share a node.
C9_Witness ==
    /\ Done
    /\ \E c, d \in 1..Len(circularDependencies) :
          c # d /\ RecordSet(c) \cap RecordSet(d) # {}

\* C10 as stated: a reference resolved to a file outside the collected set
\* never changes the edge list.
C10_UncollectedNeverLinks ==
    [][ (DepStep /\ StepDep.resolved \notin Collected) => edges' = edges ]_vars

\* C10 amended: a reference resolved to a file outside the collected set
\* changes the edge list only if some collected node has the resolved path
\* as its path or shares its base file name.
C10_UncollectedLinksOnlyByMatch ==
    [][ (/\ DepStep
         /\ StepDep.resolved \notin Collected
         /\ \A n \in 1..Len(nodes) :
               /\ nodes[n].path # StepDep.path
               /\ basename(nodes[n].path) # basename(StepDep.path))
        => edges' = edges ]_vars

\* A finished scan that met a reference to an uncollected file which no
\* collected node matches, next to a file that does have an edge.
C10_Witness ==
    /\ Done
    /\ Len(edges) > 0
    /\ \E i \in 1..Len(deps) : \E k \in 1..Len(deps[i]) :
          /\ deps[i][k].resolved \notin Collected
          /\ \A n \in 1..Len(nodes) :
                /\ nodes[n].path # deps[i][k].path
                /\ basename(nodes[n].path) # basename(deps[i][k].path)

\* C11: the source id and the target id of every edge are ids of nodes of
\* the node list.
C11_EdgeEndsAreNodes ==
    \A j \in 1..Len(edges) :
        /\ \E k \in 1..Len(nodes) : nodes[k].id = edges[j].from
        /\ \E k \in 1..Len(nodes) : nodes[k].id = edges[j].to

\* A finished scan with an edge, in which some reference resolved to a file
\* that was not collected and that no node matches.
C11_Witness ==
    /\ Done
    /\ Len(edges) > 0
    /\ \E i \in 1..Len(deps) : \E k \in 1..Len(deps[i]) :
          /\ deps[i][k].resolved \notin Collected
          /\ MatchOf(deps[i][k].path) = NULL

\* The references of the scan that were aggregated into edge j: those whose
\* source id and matched id form the key of that edge.
AggregatedInto(j) ==
    {ik \in {<<i, k>> : i \in 1..Len(deps), k \in 1..MaxWeightRefs + 1} :
        /\ ik[2] <= Len(deps[ik[1]])
        /\ MatchOf(deps[ik[1]][ik[2]].path) # NULL
        /\ MatchOf(deps[ik[1]][ik[2]].path) # nodes[ik[1]].id
        /\ nodes[ik[1]].id \o <<"-", ">">> \o MatchOf(deps[ik[1]][ik[2]].path)
              = edges[j].from \o <<"-", ">">> \o edges[j].to}

\* C12: at every moment an edge's count is the number of references
\* aggregated into it, uncapped, and its value is min(count, 5).
C12_ValueIsCappedCount ==
    (pc \in {"edges", "done"}) =>
        \A j \in 1..Len(edges) :
            /\ edges[j].count = Cardinality(AggregatedInto(j))
            /\ edges[j].value = IF edges[j].count < 5 THEN edges[j].count ELSE 5

\* A finished scan with an edge that aggregated more than five references.
C12_Witness ==
    /\ Done
    /\ \E j \in 1..Len(edges) : edges[j].count > 5 /\ edges[j].value = 5

\* The walk of the tree is over and scanWorkspace has returned its files.
Returned == pc \in {"scan", "edges", "done", "shown"}

\* The names on the way from the root down to the entry.
RECURSIVE Segments(_)
Segments(e) ==
    IF Tree[e].parent = 0 THEN {Tree[e].name}
    ELSE Segments(Tree[e].parent) \cup {Tree[e].name}

\* A regular file with a supported extension and no ignored path segment.
Eligible(e) ==
    /\ Tree[e].type = "file"
    /\ extname(Tree[e].name) \in supportedExtensions
    /\ Segments(e) \cap ignorePatterns = {}

\* C13 as stated: a scan collects a file if and only if it is a regular file
\* under the root with a supported extension and no segment of its
\* root-relative path equal to an ignore-list name.
C13_CollectedIffEligible ==
    Returned => \A e \in 1..Len(Tree) : (RelPath(e) \in Collected) <=> Eligible(e)

\* C13: a scan that returns has collected a file if and only if it is a
\* regular file under the root with a supported extension, no segment of its
\* root-relative path equals an ignore-list name, and its content could be
\* read; a name that merely contains an ignore-list name is not skipped.
C13_CollectedIffEligibleAndReadable ==
    Returned =>
        /\ \A e \in 1..Len(Tree) :
              (RelPath(e) \in Collected) <=> (Eligible(e) /\ e \notin unreadable)
        /\ \A i \in 1..Len(files) : \E e \in 1..Len(Tree) : files[i].relativePath = RelPath(e)

C13_Witness ==
    /\ Returned
    /\ unreadable # {}
    /\ RelPath(2) \in Collected
    /\ RelPath(4) \notin Collected
    /\ \E e \in 1..Len(Tree) : Tree[e].parent # 0 /\ RelPath(e) \in Collected

\* readdir is about to reject for the directory of the innermost activation.
Failing == pc = "walk" /\ stack # <<>> /\ ~Top.read /\ Top.dir \in badDirs

\* C14: when reading a directory fails the scan fails as a whole: the error
\* is shown, no file list is returned and no graph is built from the files
\* collected so far, and the panel is neither created nor updated.
C14_DirectoryFailureFailsScan ==
    [][ /\ Failing =>
            /\ pc' = "error"
            /\ notification' = "Error"
            /\ currentPanel' = currentPanel
            /\ nodes' = <<>> /\ edges' = <<>> /\ statistics' = NoStatistics
        /\ pc = "error" =>
            /\ pc' \in {"error", "walk"}
            /\ currentPanel' = currentPanel
            /\ nodes' = <<>> /\ edges' = <<>> /\ statistics' = NoStatistics ]_vars

C14_Witness == pc = "error" /\ currentPanel.panel # 0 /\ Len(files) > 0

\* C15: when reading the content of one eligible file fails, the walk goes on
\* without that file: nothing is collected for it, no error is shown, every
\* readable eligible file is collected whether visited before or after it,
\* and only a directory failure can end a scan in an error.
C15_UnreadableFileIsSkipped ==
    /\ [][ (AtEntry /\ Eligible(Entry) /\ Entry \in unreadable) =>
              /\ pc' = "walk"
              /\ files' = files
              /\ notification' = notification
              /\ Len(stack') = Len(stack) ]_vars
    /\ [](pc = "error" => badDirs # {})
    /\ []((Returned /\ unreadable # {}) =>
              \A e \in 1..Len(Tree) :
                  /\ (Eligible(e) /\ e \notin unreadable) => RelPath(e) \in Collected
                  /\ e \in unreadable => RelPath(e) \notin Collected)

C15_Witness ==
    /\ pc = "shown"
    /\ listing = "asc"
    /\ 1 \in unreadable
    /\ Len(files) >= 2

\* Loading the configuration throws: JSON.parse rejects the content, or the
\* first element of a non-empty paths array is not a string.
Malformed(config) ==
    \/ config.state = "malformed"
    \/ /\ config.state = "parsed"
       /\ \E i \in 1..Len(config.paths) :
             /\ config.paths[i].isArray
             /\ Len(config.paths[i].value) > 0
             /\ ~config.paths[i].value[1].isString

\* The reference begins with the prefix.
Begins(str, prefix) ==
    Len(prefix) <= Len(str) /\ \A i \in 1..Len(prefix) : str[i] = prefix[i]

\* C16: with a malformed alias configuration at the root, the alias table of
\* a scan by a new DependencyGraph is empty and no reference of the scan is
\* resolved through an alias.
C16_MalformedConfigGivesNoAliases ==
    (pc \in {"edges", "done"} /\ builds = 1 /\ Malformed(tsConfig)) =>
        /\ tsConfigPaths = <<>>
        /\ \A i \in 1..Len(imports) :
              (imports[i].resolved # NULL) =>
                  (Begins(imports[i].importPath, <<".">>)
                      \/ Begins(imports[i].importPath, <<"/">>))

\* C17: a JavaScript/TypeScript reference that starts neither with "." or "/"
\* nor with an alias prefix of the table is not resolved and adds no edge and
\* no count, whatever files were collected.
C17_BareReferenceNeverLinks ==
    [][ \A x \in [file : 1..MaxFiles, importPath : ImportPaths,
                  type : ImportKinds, resolved : {NULL}] \cup
                 [file : 1..MaxFiles, importPath : ImportPaths,
                  type : ImportKinds, resolved : {getNodeId(q) : q \in AliasDisk}] :
          (/\ imports' = Append(imports, x)
           /\ ~Begins(x.importPath, <<".">>)
           /\ ~Begins(x.importPath, <<"/">>)
           /\ \A i \in 1..Len(tsConfigPaths) :
                 ~Begins(x.importPath, tsConfigPaths[i].alias))
          => (x.resolved = NULL /\ edges' = edges /\ deps' = deps) ]_vars

C17_Witness ==
    /\ Done
    /\ tsConfigPaths # <<>>
    /\ \E i \in 1..Len(imports) :
          /\ imports[i].importPath = <<"b">>
          /\ imports[i].resolved = NULL
          /\ \E k \in 1..Len(files) :
                /\ k # imports[i].file
                /\ basename(files[k].relativePath) = <<"b", ".", "j", "s">>

\* C19: the alias table a build uses holds the aliases of the configuration
\* of the root it was called for and nothing else, also when buildGraph is
\* called a second time on the same DependencyGraph object.
C19_OnlyCurrentRootAliases ==
    (pc \in {"edges", "done"} /\ ~Malformed(tsConfig)) =>
        \A i \in 1..Len(tsConfigPaths) :
            /\ tsConfig.state = "parsed"
            /\ \E k \in 1..Len(tsConfig.paths) :
                  /\ tsConfig.paths[k].isArray
                  /\ Len(tsConfig.paths[k].value) > 0
                  /\ tsConfig.paths[k].key = tsConfigPaths[i].alias \o <<"/", "*">>

C20_ScansNeverOverlap ==
    \A i, j \in 1..Len(inv) :
        (inv[i].pc = "scanning" /\ inv[j].pc = "scanning") => i = j

\* ----------------------------------------------------------------------
\* C21
\* ----------------------------------------------------------------------
\* The statements of a collected file, and the directory references in it
\* are resolved from.
TextOf(k) == content[files[k].relativePath]

DirOf(k) == dirname(FullPath(files[k].relativePath))

\* The dependencies extracted from statement i of file k.
DepsOfLine(k, i) == {j \in 1..Len(deps[k]) : deps[k][j].lineNumber = i}

\* Extraction has run over the whole of file k.
Extracted(k) == pc = "done" \/ (pc = "edges" /\ k < fileIdx)

\* Some alias of the table begins the reference.
Aliased(ref) == \E a \in 1..Len(tsConfigPaths) : Begins(ref, tsConfigPaths[a].alias)

\* The candidates of a JS/TS reference with target T, in the order claimed.
ProbeOrder(T) ==
    << T \o <<".", "t", "s">>, T \o <<"/", "i", "n", "d", "e", "x", ".", "t", "s">>, T \o <<".", "t", "s", "x">>, T \o <<"/", "i", "n", "d", "e", "x", ".", "t", "s", "x">>,
       T \o <<".", "j", "s">>, T \o <<"/", "i", "n", "d", "e", "x", ".", "j", "s">>, T \o <<".", "j", "s", "x">>, T \o <<"/", "i", "n", "d", "e", "x", ".", "j", "s", "x">>, T >>

\* The first candidate that is a regular file, else NULL.
FirstExisting(candidates) ==
    IF \E i \in 1..Len(candidates) : fileExists(candidates[i])
    THEN candidates[CHOOSE i \in 1..Len(candidates) :
                        /\ fileExists(candidates[i])
                        /\ \A h \in 1..(i - 1) : ~fileExists(candidates[h])]
    ELSE NULL

GoProbeOrder(T) == << T \o <<".", "g", "o">>, T \o <<"/", "i", "n", "d", "e", "x", ".", "g", "o">>, T >>

\* C22: a Go import is resolved whatever its path looks like: its target
\* relative to the directory of the importing file is probed with the .go
\* extension, and when a collected .go file matches, the graph has an edge
\* from the importing file to it.
C22_GoImportAnyPathLinks ==
    pc = "done" =>
        \A k \in 1..Len(files) :
            files[k].language = "go" =>
                \A i \in 1..Len(TextOf(k)) :
                    LET expected == FirstExisting(GoProbeOrder(
                                        pathResolve(DirOf(k), TextOf(k)[i].ref)))
                    IN (expected # NULL /\ FileAt(expected) \in Collected
                                        /\ FileAt(expected) # files[k].relativePath) =>
                          HasEdge(getNodeId(files[k].relativePath),
                                  getNodeId(FileAt(expected)))

\* ----------------------------------------------------------------------
\* C23
\* ----------------------------------------------------------------------
\* The first alias of the table, in declaration order, that begins the
\* reference.
FirstAlias(ref) ==
    CHOOSE a \in 1..Len(tsConfigPaths) :
        /\ Begins(ref, tsConfigPaths[a].alias)
        /\ \A h \in 1..(a - 1) : ~Begins(ref, tsConfigPaths[h].alias)

\* The candidates of an aliased reference with target T.
AliasProbeOrder(T) ==
    << T \o <<".", "t", "s">>, T \o <<"/", "i", "n", "d", "e", "x", ".", "t", "s">>, T \o <<".", "t", "s", "x">>, T \o <<"/", "i", "n", "d", "e", "x", ".", "t", "s", "x">>,
       T \o <<".", "j", "s">>, T \o <<"/", "i", "n", "d", "e", "x", ".", "j", "s">>, T \o <<".", "j", "s", "x">>, T \o <<"/", "i", "n", "d", "e", "x", ".", "j", "s", "x">> >>

\* C23: when one or more aliases begin a reference, the first of them in
\* declaration order alone decides the outcome: the reference resolves to
\* what the probing of that alias's target finds and is unresolved when it
\* finds nothing; no later alias and no relative resolution is used.
C23_FirstAliasAloneDecides ==
    pc \in {"edges", "done"} =>
        \A k \in 1..Len(files) :
            files[k].language \in {"javascript", "typescript"} =>
                \A i \in 1..Len(TextOf(k)) :
                    Aliased(TextOf(k)[i].ref) =>
                        LET ref == TextOf(k)[i].ref
                            first == tsConfigPaths[FirstAlias(ref)]
                            target == pathJoin(workspacePath,
                                               Replace(ref, first.alias, first.aliasPath))
                            expected == FirstExisting(AliasProbeOrder(target))
                        IN /\ \A j \in DepsOfLine(k, i) :
                                 /\ expected # NULL
                                 /\ FullPath(deps[k][j].resolved) = expected
                           /\ Extracted(k) => (DepsOfLine(k, i) # {} <=> expected # NULL)

\* ----------------------------------------------------------------------
\* C24
\* ----------------------------------------------------------------------
\* The walk as claimed, over the segments from the i-th on: <dir>/<segment>.py
\* ends it, else <dir>/<segment>/__init__.py descends into <dir>/<segment>.
RECURSIVE SegmentWalk(_, _, _)
SegmentWalk(parts, i, dir) ==
    IF i > Len(parts) THEN NULL
    ELSE LET below == IF parts[i] = <<>> THEN dir ELSE dir \o <<"/">> \o parts[i]
         IN IF fileExists(dir \o <<"/">> \o parts[i] \o <<".", "p", "y">>)
            THEN dir \o <<"/">> \o parts[i] \o <<".", "p", "y">>
            ELSE IF fileExists(below \o <<"/", "_", "_", "i", "n", "i", "t", "_", "_", ".", "p", "y">>)
            THEN SegmentWalk(parts, i + 1, below)
            ELSE NULL

\* C24: a Python dotted reference is resolved by walking its segments left
\* to right from the directory of the referencing file: <dir>/<segment>.py
\* ends the walk with that file, else <dir>/<segment>/__init__.py makes it
\* descend, else the reference is unresolved; and `from pkg.mod import f`
\* alone in main.py, with pkg/__init__.py and pkg/mod.py, gives the edge
\* main.py -> pkg/mod.py of kind 'from'.
C24_PythonSegmentWalk ==
    /\ pc \in {"edges", "done"} =>
          \A k \in 1..Len(files) :
              files[k].language = "python" =>
                  \A i \in 1..Len(TextOf(k)) :
                      LET expected == SegmentWalk(Split(TextOf(k)[i].ref, "."), 1, DirOf(k))
                      IN /\ \A j \in DepsOfLine(k, i) :
                               /\ expected # NULL
                               /\ FullPath(deps[k][j].resolved) = expected
                         /\ Extracted(k) => (DepsOfLine(k, i) # {} <=> expected # NULL)
    /\ ( /\ pc = "done"
         /\ <<"m", "a", "i", "n", ".", "p", "y">> \in disk
         /\ <<"p", "k", "g", "/", "_", "_", "i", "n", "i", "t", "_", "_", ".", "p", "y">> \in disk /\ <<"p", "k", "g", "/", "m", "o", "d", ".", "p", "y">> \in disk /\ <<"p", "k", "g", ".", "p", "y">> \notin disk
         /\ content[<<"m", "a", "i", "n", ".", "p", "y">>] = <<[kind |-> "from", ref |-> <<"p", "k", "g", ".", "m", "o", "d">>]>> )
       => \E e \in EdgesBetween(<<"m", "a", "i", "n", ".", "p", "y">>, <<"p", "k", "g", "/", "m", "o", "d", ".", "p", "y">>) : edges[e].type = "from"

\* ----------------------------------------------------------------------
\* C25
\* ----------------------------------------------------------------------
\* The ancestor walk as claimed for an extension: <dir>/a/b/C<ext>, then the
\* same below each parent of dir, ten directories at most.
RECURSIVE AncestorWalk(_, _, _, _)
AncestorWalk(parts, ext, dir, i) ==
    LET candidate == pathJoin(dir, Join(parts, <<"/">>) \o ext)
    IN IF i >= 10 THEN NULL
       ELSE IF fileExists(candidate) THEN candidate
       ELSE IF dirname(dir) = dir THEN NULL
       ELSE AncestorWalk(parts, ext, dirname(dir), i + 1)

\* C25: a C# `using a.b.C;` is resolved by the ancestor walk against the C#
\* extension: to <ancestor>/a/b/C.cs when that file exists, else it is
\* unresolved, and never to a .java file.
C25_UsingResolvesToCs ==
    pc \in {"edges", "done"} =>
        \A k \in 1..Len(files) :
            files[k].language = "csharp" =>
                \A i \in 1..Len(TextOf(k)) :
                    LET expected == AncestorWalk(Split(TextOf(k)[i].ref, "."), <<".", "c", "s">>,
                                                 DirOf(k), 0)
                    IN /\ \A j \in DepsOfLine(k, i) :
                             /\ expected # NULL
                             /\ FullPath(deps[k][j].resolved) = expected
                             /\ extname(deps[k][j].resolved) # <<".", "j", "a", "v", "a">>
                       /\ Extracted(k) => (DepsOfLine(k, i) # {} <=> expected # NULL)

\* ----------------------------------------------------------------------
\* C27
\* ----------------------------------------------------------------------
\* The statements of file k, by position in its text, whose reference was
\* resolved and matched to the node with the given id.
LinesTo(k, id) == {deps[k][j].lineNumber : j \in {h \in 1..Len(deps[k]) :
                                                    MatchOf(deps[k][h].path) = id}}

\* C27: when several references of different kinds in the text of a file A
\* resolve to the same file B, the one edge A -> B carries the kind of the
\* first of them in A's text, and its count is the number of them.
C27_KindOfFirstInText ==
    pc = "done" =>
        \A k \in 1..Len(files) : \A e \in 1..Len(edges) :
            (edges[e].from = getNodeId(files[k].relativePath)
                /\ LinesTo(k, edges[e].to) # {}) =>
               LET first == CHOOSE i \in LinesTo(k, edges[e].to) :
                                \A h \in LinesTo(k, edges[e].to) : i <= h
               IN /\ edges[e].type = TextOf(k)[first].kind
                  /\ edges[e].count = Cardinality(LinesTo(k, edges[e].to))

\* C27 as amended: the edge A -> B carries the kind of the first of those
\* references in extraction order: the patterns of the language are run one
\* after the other (for JS/TS import, require, dynamic import, export), each
\* over the whole text, so the first is the one of the earliest pattern and,
\* within that pattern, the earliest in the text; the count is their number.
C27_KindOfFirstExtracted ==
    pc = "done" =>
        \A k \in 1..Len(files) : \A e \in 1..Len(edges) :
            (edges[e].from = getNodeId(files[k].relativePath)
                /\ LinesTo(k, edges[e].to) # {}) =>
               LET rank(i) == KindRank(files[k].language, TextOf(k)[i].kind)
                   first == CHOOSE i \in LinesTo(k, edges[e].to) :
                                \A h \in LinesTo(k, edges[e].to) :
                                    rank(i) < rank(h) \/ (rank(i) = rank(h) /\ i <= h)
               IN /\ edges[e].type = TextOf(k)[first].kind
                  /\ edges[e].count = Cardinality(LinesTo(k, edges[e].to))

\* a.js holds require('./m') and then import y from './m', both resolved to
\* m.ts: one edge of kind 'import' and count 2.
C27_Witness ==
    /\ pc = "done"
    /\ <<"a", ".", "j", "s">> \in disk
    /\ content[<<"a", ".", "j", "s">>] = <<[kind |-> "require", ref |-> <<".", "/", "m">>],
                             [kind |-> "import", ref |-> <<".", "/", "m">>]>>
    /\ \E e \in EdgesBetween(<<"a", ".", "j", "s">>, <<"m", ".", "t", "s">>) :
          edges[e].type = "import" /\ edges[e].count = 2

\* ----------------------------------------------------------------------
\* C26
\* ----------------------------------------------------------------------
\* C26: when a resolved path is matched back to a node, a node whose path
\* equals it exactly is chosen even if an earlier node has the same base
\* file name; only when no node has that path is the first node with the
\* same base file name chosen. The chosen node is the target of the edge
\* the reference creates or increments.
C26_ExactPathBeatsBasename ==
    [][ DepStep =>
          LET depPath == StepDep.path
              sourceId == getNodeId(files[fileIdx].relativePath)
              exact == {n \in 1..Len(nodes) : nodes[n].path = depPath}
              sameBase == {n \in 1..Len(nodes) :
                              basename(nodes[n].path) = basename(depPath)}
              chosen == IF exact # {}
                        THEN nodes[CHOOSE n \in exact : \A m \in exact : n <= m].id
                        ELSE IF sameBase # {}
                        THEN nodes[CHOOSE n \in sameBase : \A m \in sameBase : n <= m].id
                        ELSE NULL
          IN IF chosen = NULL \/ chosen = sourceId
             THEN edges' = edges
             ELSE \/ /\ Len(edges') = Len(edges) + 1
                     /\ edges'[Len(edges')].from = sourceId
                     /\ edges'[Len(edges')].to = chosen
                  \/ /\ Len(edges') = Len(edges)
                     /\ \E m \in edgeMap :
                           /\ m.key = sourceId \o <<"-", ">">> \o chosen
                           /\ edges'[m.idx].count = edges[m.idx].count + 1 ]_vars

\* A reference resolved to the path of a later node while an earlier node
\* has the same base file name and another path: the edge goes to the later
\* node.
C26_Witness ==
    \E i \in 1..Len(deps) : \E k \in 1..Len(deps[i]) :
        \E n, m \in 1..Len(nodes) :
            /\ n < m
            /\ nodes[m].path = deps[i][k].path
            /\ nodes[n].path # deps[i][k].path
            /\ basename(nodes[n].path) = basename(deps[i][k].path)
            /\ nodes[m].id # nodes[n].id
            /\ i = n
            /\ HasEdge(nodes[i].id, nodes[m].id)

\* ----------------------------------------------------------------------
\* C28
\* ----------------------------------------------------------------------
\* C28: every node flagged circular in a result lies on a directed cycle of
\* the result's edges: a path of one or more edges leads from it back to
\* itself.
C28_CircularNodesLieOnCycles ==
    pc = "done" =>
        \A k \in 1..Len(nodes) :
            nodes[k].isCircular =>
                nodes[k].id \in ReachFrom({edges[j].to : j \in {h \in 1..Len(edges) :
                                              edges[h].from = nodes[k].id}},
                                          Len(nodes))

\* A result with a flagged node and, next to it, a node that has edges to
\* the cycle and is not flagged.
C28_Witness ==
    /\ pc = "done"
    /\ \E k, n \in 1..Len(nodes) :
          /\ nodes[k].isCircular
          /\ ~nodes[n].isCircular
          /\ \E j \in 1..Len(edges) : edges[j].from = nodes[n].id /\ edges[j].to = nodes[k].id

\* ----------------------------------------------------------------------
\* C29
\* ----------------------------------------------------------------------
\* C29: cycle detection ends on every node and edge list, cyclic ones
\* included: no node is expanded (marked visited, its neighbours explored)
\* more than once, so dfs is called at most once per node by the loop over
\* the nodes and once per edge by an expansion, every other call returning
\* without recursing; and the search that ended is the one whose records
\* the result carries.
C29_EachNodeExpandedOnce ==
    pc = "done" =>
        LET search == detectCircularDependencies(nodes, edges)
        IN /\ \A i, j \in 1..Len(search.expanded) :
                 search.expanded[i] = search.expanded[j] => i = j
           /\ \A i \in 1..Len(search.expanded) :
                 \E k \in 1..Len(nodes) : nodes[k].id = search.expanded[i]
           /\ search.calls <= Len(nodes) + Len(edges)
           /\ search.calls - Len(search.expanded) <= Len(edges)
           /\ search.recStack = {}
           /\ search.circular = circularDependencies

\* A result with a cycle record, in whose search some call of dfs met a node
\* already expanded.
C29_Witness ==
    /\ pc = "done"
    /\ circularDependencies # <<>>
    /\ Len(nodes) = 3
    /\ detectCircularDependencies(nodes, edges).calls
          > Len(detectCircularDependencies(nodes, edges).expanded) + 1

\* ----------------------------------------------------------------------
\* C30
\* ----------------------------------------------------------------------
\* A step in which some invocation of the command reaches createOrShow.
ShowStep == \E i \in 1..Len(inv) : inv[i].pc = "scanning" /\ inv'[i].pc = "idle"

\* A step in which a panel is closed.
CloseStep == panels'.alive # panels.alive /\ panels'.alive \subseteq panels.alive

\* C30: under any sequence of invocations of the command and of panel
\* closings, at most one panel is alive and currentPanel refers to it
\* exactly when it is alive; createOrShow with a live panel keeps that panel
\* and renders the new graph data in it, closing the panel leaves
\* currentPanel undefined, and createOrShow then creates a new panel.
C30_AtMostOnePanel ==
    /\ [](/\ Cardinality(panels.alive) <= 1
          /\ currentPanel.panel # 0 => panels.alive = {currentPanel.panel}
          /\ currentPanel.panel = 0 => panels.alive = {})
    /\ [][ /\ (ShowStep /\ panels.alive # {}) =>
                 /\ panels' = panels
                 /\ currentPanel'.panel = currentPanel.panel
                 /\ \E i \in 1..Len(inv) :
                       /\ inv[i].pc = "scanning" /\ inv'[i].pc = "idle"
                       /\ Len(currentPanel'.graphData.nodes) = Len(inv[i].files)
           /\ CloseStep =>
                 /\ currentPanel'.panel = 0
                 /\ panels'.alive = {}
           /\ (ShowStep /\ panels.alive = {}) =>
                 /\ currentPanel'.panel = panels.created + 1
                 /\ panels'.alive = {currentPanel'.panel}
                 /\ panels'.created = panels.created + 1 ]_vars

\* The first panel was closed and a later invocation created the second,
\* which is alive and current.
C30_Witness ==
    /\ panels.created = 2
    /\ panels.alive = {2}
    /\ currentPanel.panel = 2

====
